---- MODULE Spec2Model ----
(***************************************************************************)
(* Lekker Find: the embedding pipeline and the vibe-matching evaluation.   *)
(*                                                                         *)
(* The specifications of this module:                                      *)
(*   SpecPool    mean_pool applied to a list of tag embeddings             *)
(*   SpecNorm    the display scaling printed by run_benchmark              *)
(*   SpecEval    evaluate_strategy: the loop over the test cases           *)
(*   Spec        the corpus file under main, incremental_update and        *)
(*               migrate_images, with the CSV edited in between            *)
(*   SpecImages  the same pipeline with the image scripts, for a CSV that  *)
(*               only grows                                                *)
(*   SpecLoad    test_embeddings.py: the corpus file is loaded and scored  *)
(*   SpecCosine  the two cosine similarity functions on arbitrary vectors  *)
(*   SpecBuild   generate_embeddings.py step by step: provider calls, the  *)
(*               write of the file, a kill, a concurrent reader            *)
(*   SpecBuildFair  the same scripts left to run to their end              *)
(*   SpecRoundTrip  incremental_update on a file written by main           *)
(*   SpecDedupe  the embedding scripts with remove_duplicates.py and       *)
(*               resolve_duplicates.py                                     *)
(*   SpecMaps    MapsService.search_places with its file cache             *)
(*   SpecEnrich  enrich_venues.py: runs of process_venues over one CSV     *)
(*   SpecAdmin   serve_admin.py: POST /api/add-venue                       *)
(*                                                                         *)
(* Arithmetic is exact.  Embedding components are integers; tag            *)
(* embeddings are multiples of Unit, so that the mean of up to MaxMoods of *)
(* them is again an integer vector.  A cosine similarity is kept as the    *)
(* pair (num, den2) standing for num / sqrt(den2) and compared exactly;    *)
(* den2 = 0 is numpy's nan.  Floating-point rounding is not modelled.      *)
(***************************************************************************)
EXTENDS Integers, Sequences, FiniteSets, TLC

VARIABLES
    \* ---- mean_pool (SpecPool)
    embeddings,       \* the argument of mean_pool
    pooled,           \* its result
    pool_pc,          \* "call" before mean_pool has run, "returned" after
    \* ---- the display scaling (SpecNorm)
    raw,              \* a raw similarity, in thousandths
    min_sim,          \* MIN_SIM, in thousandths
    max_sim,          \* MAX_SIM, in thousandths
    scaled,           \* the scaled score, a fraction of thousandths
    norm_pc,          \* "call" before the formula is applied, "returned" after
    \* ---- evaluate_strategy (SpecEval)
    venues,           \* the venues argument: list of {name, embedding}
    tag_embeddings,   \* the tag_embeddings argument: label -> vector
    test_cases,       \* the test cases iterated so far
    tc,               \* the loop variable
    pc,               \* "loop" at the head of the for loop, "done" after return
    outcome,          \* what the last iteration did: "none", "skipped", "scored"
    mood_embs,        \* local of the last iteration
    query,            \* local of the last iteration
    scores,           \* local of the last iteration: the sorted score list
    total_precision,  \* running sum, a fraction
    total_mrr,        \* running sum, a fraction
    all_spreads,      \* list of spreads
    results,          \* the results dict
    \* ---- the corpus pipeline (Spec)
    csv,              \* INPUT_CSV: the list of rows
    file,             \* OUTPUT_JSON: NoFile, or the persisted document
    images,           \* IMAGE_DIR: the set of ids X for which X.jpg exists
    last,             \* the last pipeline operation and its return value
    \* ---- cosine_similarity on one pair of vectors (SpecCosine)
    cos_v1,           \* first argument
    cos_v2,           \* second argument
    cos_out,          \* what the call produced
    cos_pc,           \* "call" before the call, "returned" after
    \* ---- test_embeddings.py reading the corpus (SpecLoad)
    q_data,           \* the document in public/lekker-find-data.json
    q_pc,             \* position in main(): "load", "tags", "venues", ...
    q_todo,           \* venues not yet scored by the venue loop
    q_sims,           \* the similarities computed so far
    \* ---- one run of generate_embeddings.py, step by step (SpecBuild)
    b_csv,            \* INPUT_CSV: rows with Name, VibeDescription, Vibe, Tourist_Level
    b_disk,           \* OUTPUT_JSON as a reader finds it
    b_pc,             \* position of the running script, "idle" when none runs
    b_mode,           \* "main" or "update"
    b_todo,           \* rows the row loop has not reached yet
    b_tagtodo,        \* tags the tag loop has not reached yet
    b_existing,       \* update: existing_data as loaded
    b_venues,         \* venues (main) / new_venues (update) collected in memory
    b_tags,           \* tag_embeddings collected in memory
    b_log,            \* the "Failed on ..." lines printed by this run
    b_calls,          \* the texts this run has sent to the embedding provider
    b_budget,         \* how many more calls the provider may fail
    b_seen,           \* what a reader got from json.load in the last step, if one read
    \* ---- MapsService.search_places (SpecMaps)
    m_cache,          \* data/cache: cache file name -> the list stored in it
    m_pc,             \* "idle", "loop" (fetching pages) or "save"
    m_call,           \* the arguments of the call that is running
    m_places,         \* all_places of the call that is running
    m_stamp,          \* how many non-empty pages the API has served so far
    m_calls,          \* how many calls of search_places have been made
    m_hist,           \* for every triple called so far, the list its last call returned
    m_last,           \* the last call that returned: arguments, result, what it did
    \* ---- enrich_venues.py (SpecEnrich)
    e_csv,            \* the VibeDescription column of the CSV file, cell by cell
    e_df,             \* the same column of the DataFrame of the running script
    e_pc,             \* "idle", "loop", "final", or "killed" after an interruption
    e_todo,           \* the rows of needs_enrichment not yet processed
    e_count,          \* success + failed
    e_start,          \* the column of the file when the last run read it
    e_picked,         \* the rows the last run has processed
    \* ---- the admin server (SpecAdmin)
    a_csv,            \* the Name column of the venue CSV
    a_before,         \* the CSV when the current request arrived
    a_name,           \* the name in the body of the current request
    a_pc,             \* position of do_POST: "idle", "append", "A" .. "D"
    a_log,            \* the pipeline steps run for the request, with exit codes
    a_status,         \* the status of the last response, 0 before the first
    a_served          \* number of requests received

poolVars == <<embeddings, pooled, pool_pc>>
evalVars == <<venues, tag_embeddings, test_cases, tc, pc, outcome, mood_embs,
              query, scores, total_precision, total_mrr, all_spreads, results>>
normVars == <<raw, min_sim, max_sim, scaled, norm_pc>>
pipeVars == <<csv, file, images, last>>
cosVars == <<cos_v1, cos_v2, cos_out, cos_pc>>
loadVars == <<q_data, q_pc, q_todo, q_sims>>
buildVars == <<b_csv, b_disk, b_pc, b_mode, b_todo, b_tagtodo, b_existing,
               b_venues, b_tags, b_log, b_calls, b_budget, b_seen>>
mapsVars == <<m_cache, m_pc, m_call, m_places, m_stamp, m_calls, m_hist,
              m_last>>
enrichVars == <<e_csv, e_df, e_pc, e_todo, e_count, e_start, e_picked>>
adminVars == <<a_csv, a_before, a_name, a_pc, a_log, a_status, a_served>>
moreVars == <<mapsVars, enrichVars, adminVars>>
restVars == <<cosVars, loadVars, buildVars, moreVars>>
vars == <<poolVars, normVars, evalVars, pipeVars, restVars>>

NoValue == "none"

(***************************************************************************)
(* Bounds                                                                  *)
(***************************************************************************)
Dim == 2          \* embedding dimension used by the model
MaxMoods == 3     \* longest list of moods / tag embeddings
MaxVenues == 6    \* longest venue list scored
MaxCases == 2     \* longest test_cases list

(***************************************************************************)
(* Vectors                                                                 *)
(***************************************************************************)
RECURSIVE Factorial(_)
Factorial(n) == IF n <= 1 THEN 1 ELSE n * Factorial(n - 1)

\* Tag embeddings are multiples of Unit: every mean of 1..MaxMoods of them
\* is an integer vector.
Unit == Factorial(MaxMoods)

Basis(i) == [j \in 1..Dim |-> IF j = i THEN 1 ELSE 0]
Ones == [j \in 1..Dim |-> 1]
Neg(v) == [j \in 1..Len(v) |-> 0 - v[j]]
Scale(k, v) == [j \in 1..Len(v) |-> k * v[j]]

RECURSIVE SumTo(_, _)
SumTo(f, n) == IF n = 0 THEN 0 ELSE f[n] + SumTo(f, n - 1)

Range(s) == {s[i] : i \in 1..Len(s)}

\* np.dot(a, b)
dot(a, b) == SumTo([j \in 1..Len(a) |-> a[j] * b[j]], Len(a))

(***************************************************************************)
(* mean_pool: np.mean(embeddings, axis=0)                                  *)
(***************************************************************************)
\* nan, the mean of nothing: a result without components
NaN == <<>>
NoCase == [moods |-> <<>>, expected |-> <<>>]

\* A running average, folded left to right: what an incremental
\* "average so far" would compute instead of the mean.
RECURSIVE mean_pool_running(_)
mean_pool_running(embs) ==
    IF Len(embs) = 0 THEN NaN
    ELSE IF Len(embs) = 1 THEN embs[1]
    ELSE LET acc == mean_pool_running(SubSeq(embs, 1, Len(embs) - 1))
         IN  [j \in 1..Len(embs[1]) |-> (acc[j] + embs[Len(embs)][j]) \div 2]

\* The mean of an empty list is nan (numpy warns and does not raise).
mean_pool(embs) ==
    IF Len(embs) = 0 THEN NaN
    ELSE [j \in 1..Len(embs[1]) |->
            SumTo([k \in 1..Len(embs) |-> embs[k][j]], Len(embs)) \div Len(embs)]

(***************************************************************************)
(* cosine_similarity: np.dot(a, b) / (norm(a) * norm(b)), kept exactly as  *)
(* num / sqrt(den2).  den2 = 0 (a zero-norm vector) is 0/0 = nan.          *)
(***************************************************************************)
cosine_similarity(a, b) == [num |-> dot(a, b), den2 |-> dot(a, a) * dot(b, b)]

Float(n) == [num |-> n, den2 |-> 1]

IsNaN(s) == s.den2 = 0

\* s < t; every comparison with nan is false
ScoreLT(s, t) ==
    IF IsNaN(s) \/ IsNaN(t) THEN FALSE
    ELSE IF s.num < 0 /\ t.num >= 0 THEN TRUE
    ELSE IF s.num >= 0 /\ t.num < 0 THEN FALSE
    ELSE IF s.num >= 0
         THEN s.num * s.num * t.den2 < t.num * t.num * s.den2
         ELSE s.num * s.num * t.den2 > t.num * t.num * s.den2

ScoreEQ(s, t) == ~ScoreLT(s, t) /\ ~ScoreLT(t, s)
ScoreLE(s, t) == ~ScoreLT(t, s)

\* Python's min(a, b) and max(a, b): the first argument unless the second
\* is strictly smaller (larger).
PyMin(a, b) == IF ScoreLT(b, a) THEN b ELSE a
PyMax(a, b) == IF ScoreLT(a, b) THEN b ELSE a

(***************************************************************************)
(* Fractions (precision, reciprocal rank and their sums), kept reduced     *)
(***************************************************************************)
RECURSIVE GCD(_, _)
GCD(a, b) == IF b = 0 THEN a ELSE GCD(b, a % b)

Frac(n, d) == LET g == GCD(n, d) IN [num |-> n \div g, den |-> d \div g]
FracAdd(x, y) == Frac(x.num * y.den + y.num * x.den, x.den * y.den)
FracDiv(x, n) == Frac(x.num, x.den * n)
FracEQ(x, y) == x.num * y.den = y.num * x.den
Zero == Frac(0, 1)

(***************************************************************************)
(* The recommended display scaling (run_benchmark), in thousandths:        *)
(*   scaled = 0.55 + (raw - MIN_SIM) / (MAX_SIM - MIN_SIM) * 0.43          *)
(* kept as the fraction num / den with den = MAX_SIM - MIN_SIM > 0.        *)
(***************************************************************************)
DisplayFloor == 550
DisplaySpan == 430
Margin == 50
GridSteps == 10

\* raw similarities in [-1, 1], in thousandths
Sims == {(1000 * k) \div GridSteps : k \in (0 - GridSteps)..GridSteps}

\* line 276
normalize(r, lo, hi) ==
    [num |-> DisplayFloor * (hi - lo) + (r - lo) * DisplaySpan, den |-> hi - lo]

NormIdle ==
    /\ raw = 0
    /\ min_sim = 0
    /\ max_sim = 0
    /\ scaled = Zero
    /\ norm_pc = "idle"

\* lines 262-272: the bounds are the observed extremes widened by 0.05
InitNorm ==
    /\ raw \in Sims
    /\ \E lo \in Sims, hi \in Sims :
          /\ lo <= hi
          /\ min_sim = lo - Margin
          /\ max_sim = hi + Margin
    /\ scaled = Zero
    /\ norm_pc = "call"

Normalize ==
    /\ norm_pc = "call"
    /\ scaled' = normalize(raw, min_sim, max_sim)
    /\ norm_pc' = "returned"
    /\ UNCHANGED <<raw, min_sim, max_sim>>

(***************************************************************************)
(* evaluate_strategy                                                       *)
(***************************************************************************)
\* The K of Precision@K and of the top-K slice, and the top-3 of details
K == 5
TopShown == 3

Min(a, b) == IF a <= b THEN a ELSE b

\* s[:n]
Take(s, n) == SubSeq(s, 1, Min(n, Len(s)))

\* [tag_embeddings[m] for m in tc['moods'] if m in tag_embeddings]
RECURSIVE KnownMoodEmbeddings(_, _)
KnownMoodEmbeddings(moods, tags) ==
    IF moods = <<>> THEN <<>>
    ELSE LET rest == KnownMoodEmbeddings(Tail(moods), tags)
         IN  IF Head(moods) \in DOMAIN tags
             THEN <<tags[Head(moods)]>> \o rest
             ELSE rest

\* the loop over the venues: one {name, score} per venue, in corpus order
ScoreVenues(q, vs) ==
    [i \in 1..Len(vs) |->
        [name |-> vs[i].name, score |-> cosine_similarity(q, vs[i].embedding)]]

\* list.sort(key=score, reverse=True): stable, so entries of equal score
\* keep the order they had.  x goes in front of the first entry whose score
\* is strictly smaller.
InsertDescending(sorted, x) ==
    LET smaller == {i \in 1..Len(sorted) : ScoreLT(sorted[i].score, x.score)}
        at == IF smaller = {} THEN Len(sorted) + 1
              ELSE CHOOSE i \in smaller : \A j \in smaller : i <= j
    IN  SubSeq(sorted, 1, at - 1) \o <<x>> \o SubSeq(sorted, at, Len(sorted))

RECURSIVE SortDescendingFrom(_, _, _)
SortDescendingFrom(sorted, list, i) ==
    IF i > Len(list) THEN sorted
    ELSE SortDescendingFrom(InsertDescending(sorted, list[i]), list, i + 1)

SortAscending(list) ==
    LET d == SortDescendingFrom(<<>>, list, 1)
    IN  [i \in 1..Len(d) |-> d[Len(d) + 1 - i]]

SortDescending(list) == SortDescendingFrom(<<>>, list, 1)

\* lines 116-122: score every venue, then sort
score_all(q, vs) == SortDescending(ScoreVenues(q, vs))

Names(list) == [i \in 1..Len(list) |-> list[i].name]

\* sum(1 for exp in tc['expected'] if exp in top5_names)
Hits(expected, top_names) ==
    Cardinality({i \in 1..Len(expected) : expected[i] \in Range(top_names)})

PrecisionDenominatorK(expected) == K

PrecisionDenominator(expected) == Min(Len(expected), K)

\* lines 123-127
precision_at_5(expected, sorted) ==
    Frac(Hits(expected, Names(Take(sorted, K))), PrecisionDenominator(expected))

\* enumerate(scores) is 0-based, so 1 / (i + 1) with the 1-based index
\* of the model is 1 / i.
ReciprocalOffByOne(i) == Frac(1, i + 1)

Reciprocal(i) == Frac(1, i)

\* lines 131-135: the first entry whose name is expected
reciprocal_rank(expected, sorted) ==
    LET found == {i \in 1..Len(sorted) : sorted[i].name \in Range(expected)}
    IN  IF found = {} THEN Zero
        ELSE Reciprocal(CHOOSE i \in found : \A j \in found : i <= j)

\* ---- the inputs evaluate_strategy is run on
NameList == <<"Harbour House", "Pier", "Maiden's Cove", "Clifton 4th Beach",
              "Camps Bay Tidal Pool", "Super Fisheries", "Smitswinkel Bay",
              "Constantia Nek">>
\* a venue the test cases expect and the sampled corpus does not hold
Ghost == "Table Mountain Cableway"

\* moods of the test cases; "Quiet" has no entry in tag_embeddings
MoodLabels == {"Romantic", "Coastal", "Quiet"}
TagEmbeddings ==
    [m \in {"Romantic", "Coastal"} |->
        IF m = "Romantic" THEN Scale(Unit, Basis(1)) ELSE Scale(Unit, Basis(2))]

VenueVecs == {Basis(1), Neg(Basis(2)), Ones}

SeqsUpTo(S, n) == UNION {[1..k -> S] : k \in 0..n}

Corpora ==
    {[i \in 1..Len(f) |-> [name |-> NameList[i], embedding |-> f[i]]] :
        f \in SeqsUpTo(VenueVecs, MaxVenues) \ {<<>>}}

\* the moods of a test case: none, known ones in either order, unknown
\* ones alone and mixed with known ones
MoodLists ==
    { <<>>,
      <<"Romantic">>,
      <<"Romantic", "Coastal">>,
      <<"Coastal", "Romantic">>,
      <<"Romantic", "Romantic", "Coastal">>,
      <<"Quiet">>,
      <<"Quiet", "Coastal">> }

ExpectedLists ==
    { <<NameList[1]>>,
      <<NameList[MaxVenues], Ghost>>,
      <<Ghost>>,
      SubSeq(NameList, 1, MaxVenues) }

Cases == [moods : MoodLists, expected : ExpectedLists]

\* the cases that follow the first one of a run: a case that is skipped,
\* then a case that is scored, in turn
FollowUpCases ==
    << [moods |-> <<"Quiet">>, expected |-> <<NameList[1]>>],
       [moods |-> <<"Coastal">>, expected |-> <<NameList[1]>>] >>

\* the test_cases lists of the model: any case first, follow-up cases after
NextCases(done) ==
    IF done = <<>> THEN Cases
    ELSE { FollowUpCases[((Len(done) - 1) % Len(FollowUpCases)) + 1] }

EvalIdle ==
    /\ venues = <<>>
    /\ tag_embeddings = <<>>
    /\ test_cases = <<>>
    /\ tc = NoCase
    /\ pc = "idle"
    /\ outcome = "none"
    /\ mood_embs = <<>>
    /\ query = <<>>
    /\ scores = <<>>
    /\ total_precision = Zero
    /\ total_mrr = Zero
    /\ all_spreads = <<>>
    /\ results = NoValue

PoolIdle ==
    /\ embeddings = <<>>
    /\ pooled = <<>>
    /\ pool_pc = "idle"

\* lines 95-106
InitEval ==
    /\ venues \in Corpora
    /\ tag_embeddings = TagEmbeddings
    /\ test_cases = <<>>
    /\ tc = NoCase
    /\ pc = "loop"
    /\ outcome = "none"
    /\ mood_embs = <<>>
    /\ query = <<>>
    /\ scores = <<>>
    /\ total_precision = Zero
    /\ total_mrr = Zero
    /\ all_spreads = <<>>
    /\ results = [precision_at_5 |-> Zero, mrr |-> Zero, score_spread |-> Float(0),
                  min_score |-> Float(1), max_score |-> Float(0), details |-> <<>>]

\* lines 108-112: no mood of the case has an embedding: continue
SkipCase(case) ==
    /\ pc = "loop"
    /\ Len(test_cases) < MaxCases
    /\ KnownMoodEmbeddings(case.moods, tag_embeddings) = <<>>
    /\ test_cases' = Append(test_cases, case)
    /\ tc' = case
    /\ mood_embs' = <<>>
    /\ outcome' = "skipped"
    /\ UNCHANGED <<venues, tag_embeddings, pc, query, scores, total_precision,
                   total_mrr, all_spreads, results>>

\* lines 108-151: one iteration that scores the corpus
ScoreCase(case) ==
    /\ pc = "loop"
    /\ Len(test_cases) < MaxCases
    /\ KnownMoodEmbeddings(case.moods, tag_embeddings) # <<>>
    /\ test_cases' = Append(test_cases, case)
    /\ tc' = case
    /\ mood_embs' = KnownMoodEmbeddings(case.moods, tag_embeddings)
    /\ query' = mean_pool(mood_embs')
    /\ scores' = score_all(query', venues)
    /\ outcome' = "scored"
    /\ LET precision == precision_at_5(case.expected, scores')
           mrr == reciprocal_rank(case.expected, scores')
           top == scores'[1].score
           bottom == scores'[Len(scores')].score
       IN  /\ total_precision' = FracAdd(total_precision, precision)
           /\ total_mrr' = FracAdd(total_mrr, mrr)
           /\ all_spreads' = Append(all_spreads, [top |-> top, bottom |-> bottom])
           /\ results' =
                [results EXCEPT
                    !.min_score = PyMin(@, bottom),
                    !.max_score = PyMax(@, top),
                    !.details = Append(@,
                        [test |-> Len(test_cases) + 1,
                         precision |-> precision,
                         mrr |-> mrr,
                         top3 |-> Names(Take(scores', TopShown)),
                         top_score |-> top])]
    /\ UNCHANGED <<venues, tag_embeddings, pc>>

\* lines 153-158: the means over n = len(test_cases), and return
Finish ==
    /\ pc = "loop"
    /\ LET n == Len(test_cases)
       IN  results' =
             [results EXCEPT
                !.precision_at_5 = IF n > 0 THEN FracDiv(total_precision, n) ELSE Zero,
                !.mrr = IF n > 0 THEN FracDiv(total_mrr, n) ELSE Zero,
                !.score_spread = IF all_spreads # <<>>
                                 THEN [mean_of |-> all_spreads]
                                 ELSE Float(0)]
    /\ pc' = "done"
    /\ UNCHANGED <<venues, tag_embeddings, test_cases, tc, outcome, mood_embs,
                   query, scores, total_precision, total_mrr, all_spreads>>

\* The values of the variables of a specification that is not running.
NoScore == [kind |-> "none", score |-> [num |-> 0, den2 |-> 1]]

EmptyDoc == [dimensions |-> 0, venues |-> <<>>, tag_embeddings |-> <<>>,
             total_venues |-> 0]

NoDisk == [state |-> "missing", doc |-> EmptyDoc]

CosIdle ==
    /\ cos_v1 = <<>>
    /\ cos_v2 = <<>>
    /\ cos_out = NoScore
    /\ cos_pc = "idle"

LoadIdle ==
    /\ q_data = EmptyDoc
    /\ q_pc = "idle"
    /\ q_todo = <<>>
    /\ q_sims = <<>>

BuildIdle ==
    /\ b_csv = <<>>
    /\ b_disk = NoDisk
    /\ b_pc = "idle"
    /\ b_mode = "none"
    /\ b_todo = <<>>
    /\ b_tagtodo = <<>>
    /\ b_existing = EmptyDoc
    /\ b_venues = <<>>
    /\ b_tags = <<>>
    /\ b_log = <<>>
    /\ b_calls = <<>>
    /\ b_budget = 0
    /\ b_seen = "none"

\* no search has been made and data/cache is empty
NoCall == [query |-> <<>>, max_results |-> 0, search_strategy |-> <<>>,
           force_refresh |-> FALSE]
NoPrior == [seen |-> FALSE, list |-> <<>>]
NoReturn == [call |-> NoCall, hit |-> FALSE, result |-> <<>>, prior |-> NoPrior,
             sharer |-> NoCall]

MapsIdle ==
    /\ m_cache = <<>>
    /\ m_pc = "idle"
    /\ m_call = NoCall
    /\ m_places = <<>>
    /\ m_stamp = 0
    /\ m_calls = 0
    /\ m_hist = <<>>
    /\ m_last = NoReturn

\* no CSV has been enriched
EnrichIdle ==
    /\ e_csv = <<>>
    /\ e_df = <<>>
    /\ e_pc = "idle"
    /\ e_todo = <<>>
    /\ e_count = 0
    /\ e_start = <<>>
    /\ e_picked = {}

AdminIdle ==
    /\ a_csv = <<>>
    /\ a_before = <<>>
    /\ a_name = <<>>
    /\ a_pc = "idle"
    /\ a_log = <<>>
    /\ a_status = 0
    /\ a_served = 0

MoreIdle == MapsIdle /\ EnrichIdle /\ AdminIdle

RestIdle == CosIdle /\ LoadIdle /\ BuildIdle /\ MoreIdle

\* The data pipeline before any script has run: no rows in the CSV, no
\* venues_embedded.json, no image files.
NoFile == [exists |-> FALSE, venues |-> <<>>, total_venues |-> 0]
NoRun == [op |-> "none", ok |-> TRUE]

PipeIdle ==
    /\ csv = <<>>
    /\ file = NoFile
    /\ images = {}
    /\ last = NoRun

NextEval ==
    \/ \E case \in NextCases(test_cases) :
            SkipCase(case) /\ UNCHANGED <<poolVars, normVars, pipeVars, restVars>>
    \/ \E case \in NextCases(test_cases) :
            ScoreCase(case) /\ UNCHANGED <<poolVars, normVars, pipeVars, restVars>>
    \/ Finish /\ UNCHANGED <<poolVars, normVars, pipeVars, restVars>>

InitEvalAll == InitEval /\ PoolIdle /\ NormIdle /\ PipeIdle /\ RestIdle

SpecEval == InitEvalAll /\ [][NextEval]_vars

(***************************************************************************)
(* Venue ids.  A name is a sequence of characters; an id is a sequence of  *)
(* tokens: the characters of the slug, "-" and one token for the digits    *)
(* that follow.                                                            *)
(***************************************************************************)
MaxSlugLen == 40
HashSpace == 65536

UpperSeq == <<"A", "B", "C", "D", "E", "F", "G", "H", "I", "J", "K", "L", "M",
              "N", "O", "P", "Q", "R", "S", "T", "U", "V", "W", "X", "Y", "Z">>
LowerSeq == <<"a", "b", "c", "d", "e", "f", "g", "h", "i", "j", "k", "l", "m",
              "n", "o", "p", "q", "r", "s", "t", "u", "v", "w", "x", "y", "z">>
DigitSeq == <<"0", "1", "2", "3", "4", "5", "6", "7", "8", "9">>
Alphabet == UpperSeq \o LowerSeq \o DigitSeq \o <<" ", "'", "-", "&">>

IndexIn(list, c) == CHOOSE i \in 1..Len(list) : list[i] = c

\* str.lower() on one character
Lower(c) == IF c \in Range(UpperSeq) THEN LowerSeq[IndexIn(UpperSeq, c)] ELSE c

IsLowerAlnum(c) == c \in Range(LowerSeq) \cup Range(DigitSeq)

\* re.sub(r"[^a-z0-9]+", "-", s): every maximal run of other characters
\* becomes one hyphen
RECURSIVE Hyphenate(_)
Hyphenate(str) ==
    IF str = <<>> THEN <<>>
    ELSE IF IsLowerAlnum(Head(str)) THEN <<Head(str)>> \o Hyphenate(Tail(str))
    ELSE IF Len(str) > 1 /\ ~IsLowerAlnum(str[2]) THEN Hyphenate(Tail(str))
    ELSE <<"-">> \o Hyphenate(Tail(str))

RECURSIVE LStrip(_)
LStrip(str) == IF str # <<>> /\ Head(str) = "-" THEN LStrip(Tail(str)) ELSE str

RECURSIVE RStrip(_)
RStrip(str) ==
    IF str # <<>> /\ str[Len(str)] = "-" THEN RStrip(SubSeq(str, 1, Len(str) - 1))
    ELSE str

\* hashlib.md5(name).hexdigest()[:4]: one of 16^4 values, fixed by the
\* name.  The digest itself is replaced by a checksum of the characters.
RECURSIVE Checksum(_)
Checksum(str) ==
    IF str = <<>> THEN 7
    ELSE (31 * Checksum(SubSeq(str, 1, Len(str) - 1))
            + IndexIn(Alphabet, str[Len(str)])) % HashSpace

Md5Prefix(name) == ToString(Checksum(name))

\* the id of incremental_update: f"v{n}"
IndexId(n) == <<"v", ToString(n)>>

\* venue_id.startswith('v') and venue_id[1:].isdigit()
\* a token of digits: a digit, or the digits of a number (no character of
\* the alphabet)
IsDigitToken(t) == t \in Range(DigitSeq) \/ t \notin Range(Alphabet)

IsIndexId(id) ==
    /\ Len(id) >= 2
    /\ id[1] = "v"
    /\ \A i \in 2..Len(id) : IsDigitToken(id[i])

generate_stable_venue_id(venue_name) ==
    LET lowered == [i \in 1..Len(venue_name) |-> Lower(venue_name[i])]
        no_apostrophes == SelectSeq(lowered, LAMBDA c : c # "'")
        stripped == RStrip(LStrip(Hyphenate(no_apostrophes)))
        normalized == IF Len(stripped) > MaxSlugLen
                      THEN RStrip(SubSeq(stripped, 1, MaxSlugLen))
                      ELSE stripped
    IN  normalized \o <<"-", Md5Prefix(venue_name)>>

(***************************************************************************)
(* The data pipeline: the venue CSV, venues_embedded.json, the image       *)
(* directory, and the scripts that rewrite them.                           *)
(*   csv    : the rows of the CSV, each row reduced to its Name            *)
(*   file   : venues_embedded.json (exists, venues, total_venues)          *)
(*   images : stems of the files <stem>.jpg in public/images/venues        *)
(*   last   : the script that ran last and whether it reported success     *)
(* A venue record keeps id, name and image_url; an image_url is absent,    *)
(* a remote http URL, or the local path /images/venues/<stem>.jpg.         *)
(***************************************************************************)
MaxCsv == 2

NamePool == { <<"P", "i", "e", "r">>, <<"A", "l", "'", "s">> }

NoUrl == [kind |-> "none", stem |-> <<>>]
HttpUrl == [kind |-> "http", stem |-> <<>>]
LocalUrl(stem) == [kind |-> "local", stem |-> stem]

get_image_filename(venue_id) == venue_id

\* existing_venues[v['name']] = v, as the list of the dict's values: a name
\* keeps the position of its first record and the value of its last.
DictPut(d, v) ==
    IF \E i \in 1..Len(d) : d[i].name = v.name
    THEN [i \in 1..Len(d) |-> IF d[i].name = v.name THEN v ELSE d[i]]
    ELSE Append(d, v)

RECURSIVE DictFrom(_, _)
DictFrom(d, vs) ==
    IF vs = <<>> THEN d ELSE DictFrom(DictPut(d, Head(vs)), Tail(vs))

existing_venues(f) == IF f.exists THEN DictFrom(<<>>, f.venues) ELSE <<>>

DictHas(d, name) == \E i \in 1..Len(d) : d[i].name = name
DictGet(d, name) == d[CHOOSE i \in 1..Len(d) : d[i].name = name]

\* The row loop of main(): a row whose embedding call raises is skipped, any
\* other row is appended with the stable id of its name and the image fields
\* of the existing record of that name.
RECURSIVE MainRows(_, _, _, _, _)
MainRows(rows, i, ok, existing, acc) ==
    IF i > Len(rows) THEN acc
    ELSE IF i \notin ok THEN MainRows(rows, i + 1, ok, existing, acc)
    ELSE LET name == rows[i]
             kept == IF DictHas(existing, name)
                        /\ DictGet(existing, name).image_url.kind # "none"
                     THEN DictGet(existing, name).image_url
                     ELSE NoUrl
             venue_data == [id |-> generate_stable_venue_id(name),
                            name |-> name,
                            image_url |-> kept]
         IN  MainRows(rows, i + 1, ok, existing, Append(acc, venue_data))

\* The row loop of incremental_update(): the id of a new venue is "v"
\* followed by the number of existing names plus the number of venues
\* appended so far.
RECURSIVE UpdateRows(_, _, _, _, _)
UpdateRows(rows, i, ok, n_existing, acc) ==
    IF i > Len(rows) THEN acc
    ELSE IF i \notin ok THEN UpdateRows(rows, i + 1, ok, n_existing, acc)
    ELSE LET venue == [id |-> IndexId(n_existing + Len(acc)),
                       name |-> rows[i],
                       image_url |-> NoUrl]
         IN  UpdateRows(rows, i + 1, ok, n_existing, Append(acc, venue))

Written(vs) == [exists |-> TRUE, venues |-> vs, total_venues |-> Len(vs)]

\* Editing the CSV by hand: a row is added, or a row is deleted.
AppendRow(name) ==
    /\ Len(csv) < MaxCsv
    /\ csv' = Append(csv, name)
    /\ UNCHANGED <<file, images, last>>

RemoveRow(i) ==
    /\ i \in 1..Len(csv)
    /\ csv' = SubSeq(csv, 1, i - 1) \o SubSeq(csv, i + 1, Len(csv))
    /\ UNCHANGED <<file, images, last>>

\* python generate_embeddings.py: every row of the CSV is embedded again and
\* the JSON is rewritten from the rows whose embedding call succeeded (ok).
main(ok) ==
    /\ ok \subseteq 1..Len(csv)
    /\ file' = Written(MainRows(csv, 1, ok, existing_venues(file), <<>>))
    /\ last' = [op |-> "main", ok |-> TRUE]
    /\ UNCHANGED <<csv, images>>

\* python generate_embeddings.py --incremental: only rows whose name is not
\* in the JSON are embedded, and they are appended to the existing venues.
incremental_update(ok) ==
    LET existing == existing_venues(file)
        new_names == Range(csv) \ { existing[i].name : i \in 1..Len(existing) }
        new_df == SelectSeq(csv, LAMBDA name : name \in new_names)
    IN  /\ ok \subseteq 1..Len(new_df)
        /\ IF ~file.exists
           THEN /\ ok = {}
                /\ last' = [op |-> "incremental_update", ok |-> FALSE]
                /\ UNCHANGED file
           ELSE IF new_names = {}
           THEN /\ ok = {}
                /\ last' = [op |-> "incremental_update", ok |-> TRUE]
                /\ UNCHANGED file
           ELSE /\ file' = Written(existing \o
                               UpdateRows(new_df, 1, ok, Len(existing), <<>>))
                /\ last' = [op |-> "incremental_update", ok |-> TRUE]
        /\ UNCHANGED <<csv, images>>

\* python fetch_images.py: a venue without an image_url gets the remote photo
\* URL of the place found for its name (found), if any.
process_all_venues(found) ==
    /\ file.exists
    /\ \E i \in 1..Len(file.venues) : file.venues[i].image_url.kind = "none"
    /\ found \subseteq { i \in 1..Len(file.venues) :
                             file.venues[i].image_url.kind = "none" }
    /\ file' = [file EXCEPT !.venues =
                   [i \in 1..Len(file.venues) |->
                       IF i \in found
                       THEN [file.venues[i] EXCEPT !.image_url = HttpUrl]
                       ELSE file.venues[i]]]
    /\ last' = [op |-> "process_all_venues", ok |-> TRUE]
    /\ UNCHANGED <<csv, images>>

\* The venue loop of localize_images(): a remote image is stored as <id>.jpg
\* and the record is pointed at it; a download may fail (i not in ok).
RECURSIVE LocalizeLoop(_, _, _, _)
LocalizeLoop(vs, i, ok, imgs) ==
    IF i > Len(vs) THEN [venues |-> vs, images |-> imgs]
    ELSE LET venue == vs[i]
             filename == get_image_filename(venue.id)
             localized == [vs EXCEPT ![i].image_url = LocalUrl(filename)]
         IN  IF venue.image_url.kind # "http" THEN LocalizeLoop(vs, i + 1, ok, imgs)
             ELSE IF filename \in imgs THEN LocalizeLoop(localized, i + 1, ok, imgs)
             ELSE IF i \in ok
                  THEN LocalizeLoop(localized, i + 1, ok, imgs \cup {filename})
                  ELSE LocalizeLoop(vs, i + 1, ok, imgs)

localize_images(ok) ==
    /\ file.exists
    /\ ok \subseteq { i \in 1..Len(file.venues) :
                          file.venues[i].image_url.kind = "http" }
    /\ LET done == LocalizeLoop(file.venues, 1, ok, images)
       IN  /\ file' = [file EXCEPT !.venues = done.venues]
           /\ images' = done.images
    /\ last' = [op |-> "localize_images", ok |-> TRUE]
    /\ UNCHANGED csv

\* The rename loop of migrate_images(): a file is renamed from <old id>.jpg
\* to <stable id>.jpg unless the target exists; a target that is another file
\* and a rename that raises (i in raises, or no source file) count as failed.
RECURSIVE RenameLoop(_, _, _, _, _)
RenameLoop(migrations, i, raises, imgs, failed) ==
    IF i > Len(migrations) THEN [images |-> imgs, failed |-> failed]
    ELSE LET old_id == migrations[i].id
             new_id == generate_stable_venue_id(migrations[i].name)
         IN  IF new_id \in imgs
             THEN IF old_id = new_id
                  THEN RenameLoop(migrations, i + 1, raises, imgs, failed)
                  ELSE RenameLoop(migrations, i + 1, raises, imgs, failed + 1)
             ELSE IF i \in raises \/ old_id \notin imgs
                  THEN RenameLoop(migrations, i + 1, raises, imgs, failed + 1)
                  ELSE RenameLoop(migrations, i + 1, raises,
                                  (imgs \ {old_id}) \cup {new_id}, failed)

\* The JSON update of migrate_images(): every id becomes the stable id of
\* the name, and a local image_url whose file name starts with "v" is
\* pointed at <stable id>.jpg.
StableRecord(venue) ==
    LET new_id == generate_stable_venue_id(venue.name)
    IN  [venue EXCEPT
            !.id = new_id,
            !.image_url = IF venue.image_url.kind = "local"
                             /\ venue.image_url.stem[1] = "v"
                          THEN LocalUrl(get_image_filename(new_id))
                          ELSE venue.image_url]

\* python migrate_images_to_stable_ids.py [--execute]
migrate_images(dry_run, raises) ==
    LET migrations == SelectSeq(file.venues, LAMBDA v : v.id \in images)
        new_ids == [i \in 1..Len(migrations) |->
                       generate_stable_venue_id(migrations[i].name)]
        done == RenameLoop(migrations, 1, raises, images, 0)
        report(ok) == [op |-> "migrate_images", ok |-> ok]
    IN  /\ raises \subseteq 1..Len(migrations)
        /\ IF ~file.exists \/ Len(new_ids) # Cardinality(Range(new_ids))
           THEN /\ raises = {}
                /\ last' = report(FALSE)
                /\ UNCHANGED <<file, images>>
           ELSE IF dry_run
           THEN /\ raises = {}
                /\ last' = report(TRUE)
                /\ UNCHANGED <<file, images>>
           ELSE IF done.failed > 0
           THEN /\ last' = report(FALSE)
                /\ images' = done.images
                /\ UNCHANGED file
           ELSE /\ last' = report(TRUE)
                /\ images' = done.images
                /\ file' = [file EXCEPT !.venues =
                               [i \in 1..Len(file.venues) |->
                                   StableRecord(file.venues[i])]]
        /\ UNCHANGED csv

Init == PipeIdle /\ PoolIdle /\ NormIdle /\ EvalIdle /\ RestIdle

Next ==
    \/ \E name \in NamePool : AppendRow(name) /\ UNCHANGED <<poolVars, normVars, evalVars, restVars>>
    \/ \E i \in 1..MaxCsv : RemoveRow(i) /\ UNCHANGED <<poolVars, normVars, evalVars, restVars>>
    \/ \E ok \in SUBSET (1..MaxCsv) :
            main(ok) /\ UNCHANGED <<poolVars, normVars, evalVars, restVars>>
    \/ \E ok \in SUBSET (1..MaxCsv) :
            incremental_update(ok) /\ UNCHANGED <<poolVars, normVars, evalVars, restVars>>
    \/ \E dry_run \in BOOLEAN, raises \in SUBSET (1..Len(file.venues)) :
            migrate_images(dry_run, raises) /\ UNCHANGED <<poolVars, normVars, evalVars, restVars>>

\* The CSV, the embedding scripts and the id migration, with no image on disk.
Spec == Init /\ [][Next]_vars

\* The same pipeline with the image scripts, for a CSV that only grows.
NextImages ==
    \/ \E name \in NamePool : AppendRow(name) /\ UNCHANGED <<poolVars, normVars, evalVars, restVars>>
    \/ \E ok \in SUBSET (1..MaxCsv) :
            main(ok) /\ UNCHANGED <<poolVars, normVars, evalVars, restVars>>
    \/ \E ok \in SUBSET (1..MaxCsv) :
            incremental_update(ok) /\ UNCHANGED <<poolVars, normVars, evalVars, restVars>>
    \/ \E found \in SUBSET (1..Len(file.venues)) :
            process_all_venues(found) /\ UNCHANGED <<poolVars, normVars, evalVars, restVars>>
    \/ \E ok \in SUBSET (1..Len(file.venues)) :
            localize_images(ok) /\ UNCHANGED <<poolVars, normVars, evalVars, restVars>>
    \/ \E dry_run \in BOOLEAN, raises \in SUBSET (1..Len(file.venues)) :
            migrate_images(dry_run, raises) /\ UNCHANGED <<poolVars, normVars, evalVars, restVars>>

SpecImages == Init /\ [][NextImages]_vars

(***************************************************************************)
(* SpecDedupe: the embedding scripts with the two duplicate clean-up       *)
(* scripts.  remove_duplicates.py drops repeated names from the CSV and    *)
(* from the JSON; resolve_duplicates.py drops the names listed in its      *)
(* resolutions table from both.                                            *)
(***************************************************************************)
TheRock == <<"T", "h", "e", " ", "R", "o", "c", "k">>

\* Two spellings of one name, and a name that resolve_duplicates removes.
DedupePool == { <<"P", "i", "e", "r">>, <<"p", "i", "e", "r">>, TheRock }

\* The keys of the resolutions table that occur in DedupePool.
resolutions == { TheRock }

RECURSIVE Strip(_)
Strip(str) ==
    IF str # <<>> /\ Head(str) = " " THEN Strip(Tail(str))
    ELSE IF str # <<>> /\ str[Len(str)] = " "
         THEN Strip(SubSeq(str, 1, Len(str) - 1))
         ELSE str

\* norm_name = name.lower().strip()
norm_name(name) == Strip([i \in 1..Len(name) |-> Lower(name[i])])

\* df.drop_duplicates(subset=['Name'], keep='last')
RECURSIVE drop_duplicates(_)
drop_duplicates(rows) ==
    IF rows = <<>> THEN <<>>
    ELSE IF Head(rows) \in Range(Tail(rows)) THEN drop_duplicates(Tail(rows))
    ELSE <<Head(rows)>> \o drop_duplicates(Tail(rows))

\* The venue loop of remove_duplicates(): a venue is kept unless its
\* normalised name was seen before.  No name of DedupePool is a key of
\* CANONICAL_MAP, so the canonical branch is never entered.
RECURSIVE unique_venues(_, _, _)
unique_venues(vs, seen_names, acc) ==
    IF vs = <<>> THEN acc
    ELSE IF norm_name(Head(vs).name) \in seen_names
         THEN unique_venues(Tail(vs), seen_names, acc)
         ELSE unique_venues(Tail(vs), seen_names \cup {norm_name(Head(vs).name)},
                            Append(acc, Head(vs)))

\* data['venues'] = kept with the count left as it was
SaveVenuesOnly(data, kept) == [data EXCEPT !.venues = kept]

\* data['venues'] = kept; data['metadata']['total_venues'] = len(kept)
SaveVenues(data, kept) ==
    [data EXCEPT !.venues = kept, !.total_venues = Len(kept)]

Cleaned(op, ok, removed) == [op |-> op, ok |-> ok, removed |-> removed]

\* python remove_duplicates.py [--dry-run]: the CSV is rewritten first, so
\* it is cleaned even when the JSON cannot be opened.
remove_duplicates(dry_run) ==
    LET df == drop_duplicates(csv)
        unique == unique_venues(file.venues, {}, <<>>)
        duplicates_found == Len(file.venues) - Len(unique)
    IN  /\ csv' = IF Len(csv) - Len(df) > 0 /\ ~dry_run THEN df ELSE csv
        /\ IF ~file.exists
           THEN /\ last' = Cleaned("remove_duplicates", FALSE, 0)
                /\ UNCHANGED file
           ELSE IF duplicates_found > 0 /\ ~dry_run
           THEN /\ file' = SaveVenues(file, unique)
                /\ last' = Cleaned("remove_duplicates", TRUE, duplicates_found)
           ELSE /\ last' = Cleaned("remove_duplicates", TRUE, 0)
                /\ UNCHANGED file
        /\ UNCHANGED images

\* python resolve_duplicates.py: the venues whose name is a key of the
\* resolutions table leave the JSON, and the rows of those names leave the
\* CSV.
resolve_duplicates ==
    LET kept_venues == SelectSeq(file.venues, LAMBDA v : v.name \notin resolutions)
        removed_names == { file.venues[i].name : i \in 1..Len(file.venues) }
                             \cap resolutions
    IN  IF ~file.exists
        THEN /\ last' = Cleaned("resolve_duplicates", FALSE, 0)
             /\ UNCHANGED <<csv, file, images>>
        ELSE /\ csv' = SelectSeq(csv, LAMBDA name : name \notin removed_names)
             /\ file' = IF removed_names # {} THEN SaveVenues(file, kept_venues)
                        ELSE file
             /\ last' = Cleaned("resolve_duplicates", TRUE,
                                Len(file.venues) - Len(kept_venues))
             /\ UNCHANGED images

dedupeElse == <<poolVars, normVars, evalVars, restVars>>

NextDedupe ==
    \/ \E name \in DedupePool : AppendRow(name) /\ UNCHANGED dedupeElse
    \/ \E ok \in SUBSET (1..MaxCsv) : main(ok) /\ UNCHANGED dedupeElse
    \/ \E ok \in SUBSET (1..MaxCsv) : incremental_update(ok) /\ UNCHANGED dedupeElse
    \/ \E dry_run \in BOOLEAN : remove_duplicates(dry_run) /\ UNCHANGED dedupeElse
    \/ resolve_duplicates /\ UNCHANGED dedupeElse

SpecDedupe == Init /\ [][NextDedupe]_vars

(***************************************************************************)
(* SpecAdmin: serve_admin.py, the local server behind the add-venue form.  *)
(* socketserver.TCPServer handles one request at a time, so do_POST runs   *)
(* from its first line to its response before the next request is read.    *)
(* A pipeline step is the script started by os.system, reduced to its      *)
(* exit code.                                                              *)
(***************************************************************************)
MaxRequests == 2

AddVenuePath == "/api/add-venue"
Paths == {AddVenuePath, "/api/other"}

\* A request body: JSON with a name, or bytes json.loads rejects.
BadBody == <<"{">>
Bodies == NamePool \cup {BadBody}

ExitCodes == {0, 256}

StepOrder == <<"A", "B", "C", "D">>
StepAfter(step) == StepOrder[IndexIn(StepOrder, step) + 1]

\* do_POST up to json.loads: another path is answered 404, a body that does
\* not parse raises and is answered 500 by the except block.
ReceivePost(path, body) ==
    /\ a_pc = "idle"
    /\ a_served < MaxRequests
    /\ a_served' = a_served + 1
    /\ a_before' = a_csv
    /\ a_log' = <<>>
    /\ IF path # AddVenuePath
       THEN a_status' = 404 /\ a_pc' = "idle" /\ a_name' = <<>>
       ELSE IF body = BadBody
       THEN a_status' = 500 /\ a_pc' = "idle" /\ a_name' = <<>>
       ELSE a_status' = 0 /\ a_pc' = "append" /\ a_name' = body
    /\ UNCHANGED a_csv

\* with open(csv_path, 'a') ... writer.writerow(row): the row is in the file
\* before any pipeline step starts; an OSError is answered 500.
AppendToCsv(raises) ==
    /\ a_pc = "append"
    /\ IF raises
       THEN a_status' = 500 /\ a_pc' = "idle" /\ UNCHANGED a_csv
       ELSE a_csv' = Append(a_csv, a_name) /\ a_pc' = "A" /\ UNCHANGED a_status
    /\ UNCHANGED <<a_before, a_name, a_log, a_served>>

\* Steps A, B and C of run_pipeline_steps(): a non-zero exit code is printed
\* and the next step runs.
PipelineStep(exit_code) ==
    /\ a_pc \in {"A", "B", "C"}
    /\ a_log' = Append(a_log, [step |-> a_pc, exit_code |-> exit_code])
    /\ a_pc' = StepAfter(a_pc)
    /\ UNCHANGED <<a_csv, a_before, a_name, a_status, a_served>>

\* Step D and the response: a non-zero exit code raises, and the except
\* block of do_POST answers 500; otherwise the answer is 200.
EmbeddingStep(exit_code) ==
    /\ a_pc = "D"
    /\ a_log' = Append(a_log, [step |-> "D", exit_code |-> exit_code])
    /\ a_status' = IF exit_code # 0 THEN 500 ELSE 200
    /\ a_pc' = "idle"
    /\ UNCHANGED <<a_csv, a_before, a_name, a_served>>

InitAdmin == AdminIdle

InitAdminAll ==
    InitAdmin /\ PoolIdle /\ NormIdle /\ EvalIdle /\ PipeIdle /\ CosIdle /\ LoadIdle
              /\ BuildIdle /\ MapsIdle /\ EnrichIdle

adminElse == <<poolVars, normVars, evalVars, pipeVars, cosVars, loadVars, buildVars,
               mapsVars, enrichVars>>

NextAdmin ==
    \/ \E path \in Paths, body \in Bodies :
            ReceivePost(path, body) /\ UNCHANGED adminElse
    \/ \E raises \in BOOLEAN : AppendToCsv(raises) /\ UNCHANGED adminElse
    \/ \E exit_code \in ExitCodes : PipelineStep(exit_code) /\ UNCHANGED adminElse
    \/ \E exit_code \in ExitCodes : EmbeddingStep(exit_code) /\ UNCHANGED adminElse

SpecAdmin == InitAdminAll /\ [][NextAdmin]_vars

(***************************************************************************)
(* SpecLoad: test_embeddings.py reads the corpus file and scores it.       *)
(* The document is whatever the file holds: its declared dimensions, its   *)
(* tag vectors and its venue vectors need not agree in length.             *)
(***************************************************************************)
MaxLoad == 3

Longer(v) == Append(v, 1)

\* np.dot on two 1-d arrays raises ValueError unless the lengths agree;
\* np.mean over lists of different lengths raises as well.
ShapesAligned(a, b) == Len(a) = Len(b)

LoadTagVecs == { Scale(Unit, Basis(1)), Scale(Unit, Longer(Ones)) }
LoadVenueVecs == { Basis(1), Ones, Longer(Ones) }
LoadTags == {"Romantic", "Cozy", "Coastal"}

LoadDocuments ==
    { [dimensions |-> d,
       venues |-> [i \in 1..Len(vs) |-> [name |-> NameList[i], embedding |-> vs[i]]],
       tag_embeddings |-> t,
       total_venues |-> Len(vs)] :
         d \in {Dim, Dim + 1},
         vs \in SeqsUpTo(LoadVenueVecs, MaxLoad),
         t \in [LoadTags -> LoadTagVecs] }

\* lines 19-26: json.load, tags = data['tag_embeddings'], venues = data['venues']
LoadCorpus ==
    /\ q_pc = "load"
    /\ q_pc' = "tags"
    /\ UNCHANGED <<q_data, q_todo, q_sims>>

\* lines 28-63: the tag similarity tests, here the pair Romantic / Cozy
TagTests ==
    /\ q_pc = "tags"
    /\ LET tags == q_data.tag_embeddings
       IN  IF ShapesAligned(tags["Romantic"], tags["Cozy"])
           THEN /\ q_sims' = Append(q_sims,
                                cosine_similarity(tags["Romantic"], tags["Cozy"]))
                /\ q_pc' = "query"
           ELSE /\ q_pc' = "ValueError"
                /\ UNCHANGED q_sims
    /\ UNCHANGED <<q_data, q_todo>>

\* lines 69-71: query = np.mean([tags['Romantic'], tags['Coastal']], axis=0)
PoolQuery ==
    /\ q_pc = "query"
    /\ LET tags == q_data.tag_embeddings
       IN  IF ShapesAligned(tags["Romantic"], tags["Coastal"])
           THEN /\ q_pc' = "venues"
                /\ q_todo' = q_data.venues
           ELSE /\ q_pc' = "ValueError"
                /\ UNCHANGED q_todo
    /\ UNCHANGED <<q_data, q_sims>>

\* lines 75-81: one iteration of the venue loop
ScoreVenue ==
    /\ q_pc = "venues"
    /\ q_todo # <<>>
    /\ LET tags == q_data.tag_embeddings
           q == mean_pool(<<tags["Romantic"], tags["Coastal"]>>)
           venue == Head(q_todo)
       IN  IF ShapesAligned(q, venue.embedding)
           THEN /\ q_sims' = Append(q_sims, cosine_similarity(q, venue.embedding))
                /\ q_todo' = Tail(q_todo)
                /\ q_pc' = "venues"
           ELSE /\ q_pc' = "ValueError"
                /\ UNCHANGED <<q_sims, q_todo>>
    /\ UNCHANGED q_data

\* lines 83-88: the scores are sorted and the top five printed
PrintRanking ==
    /\ q_pc = "venues"
    /\ q_todo = <<>>
    /\ q_pc' = "ranked"
    /\ UNCHANGED <<q_data, q_todo, q_sims>>

InitLoad ==
    /\ q_data \in LoadDocuments
    /\ q_pc = "load"
    /\ q_todo = <<>>
    /\ q_sims = <<>>

InitLoadAll ==
    InitLoad /\ PoolIdle /\ NormIdle /\ EvalIdle /\ PipeIdle /\ CosIdle /\ BuildIdle
             /\ MoreIdle

NextLoad ==
    \/ LoadCorpus /\ UNCHANGED <<poolVars, normVars, evalVars, pipeVars, cosVars, buildVars, moreVars>>
    \/ TagTests /\ UNCHANGED <<poolVars, normVars, evalVars, pipeVars, cosVars, buildVars, moreVars>>
    \/ PoolQuery /\ UNCHANGED <<poolVars, normVars, evalVars, pipeVars, cosVars, buildVars, moreVars>>
    \/ ScoreVenue /\ UNCHANGED <<poolVars, normVars, evalVars, pipeVars, cosVars, buildVars, moreVars>>
    \/ PrintRanking /\ UNCHANGED <<poolVars, normVars, evalVars, pipeVars, cosVars, buildVars, moreVars>>

SpecLoad == InitLoadAll /\ [][NextLoad]_vars

(***************************************************************************)
(* SpecCosine: one call of cosine_similarity on a pair of vectors, in the  *)
(* numpy version (ab_test_embeddings.py, test_embeddings.py) and in the    *)
(* plain version (remove_duplicates.py).                                   *)
(***************************************************************************)
CosVecs == [1..Dim -> {0 - 1, 0, 1}] \cup { <<>> }

Returned(score) == [kind |-> "value", score |-> score]
Raised(error) == [kind |-> error, score |-> [num |-> 0, den2 |-> 1]]

\* sum(a*b for a, b in zip(v1, v2)): the products over the shorter length
zip_dot(v1, v2) ==
    SumTo([j \in 1..Min(Len(v1), Len(v2)) |-> v1[j] * v2[j]], Min(Len(v1), Len(v2)))

\* remove_duplicates.py: 0.0 for an empty vector and for a zero norm
cosine_similarity_plain(v1, v2) ==
    IF v1 = <<>> \/ v2 = <<>> THEN Float(0)
    ELSE IF dot(v1, v1) = 0 \/ dot(v2, v2) = 0 THEN Float(0)
    ELSE [num |-> zip_dot(v1, v2), den2 |-> dot(v1, v1) * dot(v2, v2)]

\* ab_test_embeddings.py: np.dot raises on unequal lengths; a zero norm
\* divides 0.0 by 0.0, which numpy answers with nan and a warning
CallNumpy ==
    /\ cos_pc = "call"
    /\ cos_out' = IF ShapesAligned(cos_v1, cos_v2)
                  THEN Returned(cosine_similarity(cos_v1, cos_v2))
                  ELSE Raised("ValueError")
    /\ cos_pc' = "numpy"
    /\ UNCHANGED <<cos_v1, cos_v2>>

CallPlain ==
    /\ cos_pc = "call"
    /\ cos_out' = Returned(cosine_similarity_plain(cos_v1, cos_v2))
    /\ cos_pc' = "plain"
    /\ UNCHANGED <<cos_v1, cos_v2>>

InitCosine ==
    /\ cos_v1 \in CosVecs
    /\ cos_v2 \in CosVecs
    /\ cos_out = NoScore
    /\ cos_pc = "call"

InitCosineAll ==
    InitCosine /\ PoolIdle /\ NormIdle /\ EvalIdle /\ PipeIdle /\ LoadIdle /\ BuildIdle
               /\ MoreIdle

NextCosine ==
    \/ CallNumpy /\ UNCHANGED <<poolVars, normVars, evalVars, pipeVars, loadVars, buildVars, moreVars>>
    \/ CallPlain /\ UNCHANGED <<poolVars, normVars, evalVars, pipeVars, loadVars, buildVars, moreVars>>

SpecCosine == InitCosineAll /\ [][NextCosine]_vars

(***************************************************************************)
(* SpecBuild: generate_embeddings.py step by step.  A run embeds the rows  *)
(* one provider call at a time, then (main) the tags, then opens the       *)
(* output file for writing and dumps the document into it.  The run may be *)
(* killed between any two steps, and another process may read the file at  *)
(* any time.                                                               *)
(* An embedding is kept as the text it was computed from and its length.   *)
(***************************************************************************)
MaxRows == 2
MaxFailures == 1
EMBEDDING_DIMENSIONS == 256

Pier == <<"P", "i", "e", "r">>
Als == <<"A", "l", "'", "s">>

DescriptionText == "A relaxed seafood restaurant right on the harbour wall"
VibeText == "Romantic, Coastal"

RowPool ==
    { [Name |-> Pier, VibeDescription |-> DescriptionText, Vibe |-> VibeText,
       Tourist_Level |-> "3"],
      [Name |-> Als, VibeDescription |-> "", Vibe |-> VibeText,
       Tourist_Level |-> "3"],
      [Name |-> Als, VibeDescription |-> "", Vibe |-> "",
       Tourist_Level |-> "3"],
      [Name |-> Pier, VibeDescription |-> "", Vibe |-> VibeText,
       Tourist_Level |-> "nan"] }

ALL_UI_TAGS == <<"Romantic", "Coastal">>

TAG_DESCRIPTIONS(tag) ==
    IF tag = "Romantic"
    THEN "A romantic, intimate, cozy atmosphere perfect for couples and date nights"
    ELSE "A coastal, oceanside, beachfront, seaside location by the water"

\* the embedding the provider returns for a text when asked for the model's
\* default length (no dimensions argument)
get_embedding_default(text) == [text |-> text, dims |-> 6 * EMBEDDING_DIMENSIONS]

\* get_embedding: the provider is asked for EMBEDDING_DIMENSIONS components
get_embedding(text) == [text |-> text, dims |-> EMBEDDING_DIMENSIONS]

\* embedding_text = vibe_desc if vibe_desc else vibe_str
embedding_text(row) ==
    IF row.VibeDescription # "" THEN row.VibeDescription ELSE row.Vibe

\* int(row['Tourist_Level']) raises ValueError on a missing value
IntRaises(level) == level = "nan"

\* The provider may fail a call while its failure budget lasts; what it does
\* with an empty text is its own business: it may answer or refuse.
MayFail(text) == b_budget > 0 \/ text = ""
BudgetAfter(text, answered) ==
    IF answered \/ text = "" THEN b_budget ELSE b_budget - 1

\* print(f"  Failed on {name}: {e}"): the failure of one item is reported
ReportNothing(log, item) == log

Report(log, item) == Append(log, item)

\* what one iteration of a loop did with the provider: the text it sent,
\* whether the provider answered, and whether the rest of the row converts
Call(item, text, answered, converts) ==
    [item |-> item, text |-> text, answered |-> answered, converts |-> converts]

RowNames(rows) == { rows[i].Name : i \in 1..Len(rows) }
VenueNames(vs) == { vs[i].name : i \in 1..Len(vs) }

\* where the script goes when the row loop has no row left
AfterRows(todo, mode) ==
    IF todo # <<>> THEN "rows" ELSE IF mode = "main" THEN "tags" ELSE "save"

AfterTags(todo) == IF todo # <<>> THEN "tags" ELSE "save"

\* a row is added to the CSV while no script runs
AddRow(row) ==
    /\ b_pc = "idle"
    /\ Len(b_csv) < MaxRows
    /\ b_csv' = Append(b_csv, row)
    /\ UNCHANGED <<b_disk, b_pc, b_mode, b_todo, b_tagtodo, b_existing,
                   b_venues, b_tags, b_log, b_calls, b_budget>>
    /\ b_seen' = "none"

\* main(), lines 207-243: json.load of an existing output file raises on a
\* file that holds no complete document; otherwise the row loop starts
\* with venues = []
StartMain ==
    /\ b_pc = "idle"
    /\ b_disk.state # "truncated"
    /\ b_mode' = "main"
    /\ b_todo' = b_csv
    /\ b_tagtodo' = ALL_UI_TAGS
    /\ b_existing' = b_disk.doc
    /\ b_venues' = <<>>
    /\ b_tags' = <<>>
    /\ b_log' = <<>>
    /\ b_calls' = <<>>
    /\ b_pc' = AfterRows(b_csv, "main")
    /\ UNCHANGED <<b_csv, b_disk, b_budget>>
    /\ b_seen' = "none"

\* incremental_update(), lines 343-394: returns when there is no output
\* file or no new name; otherwise the row loop starts on the new rows
StartUpdate ==
    /\ b_pc = "idle"
    /\ b_disk.state = "complete"
    /\ LET existing == DictFrom(<<>>, b_disk.doc.venues)
           new_names == RowNames(b_csv) \ VenueNames(existing)
           new_df == SelectSeq(b_csv, LAMBDA row : row.Name \in new_names)
       IN  /\ new_names # {}
           /\ b_todo' = new_df
    /\ b_mode' = "update"
    /\ b_tagtodo' = <<>>
    /\ b_existing' = b_disk.doc
    /\ b_venues' = <<>>
    /\ b_tags' = <<>>
    /\ b_log' = <<>>
    /\ b_calls' = <<>>
    /\ b_pc' = "rows"
    /\ UNCHANGED <<b_csv, b_disk, b_budget>>
    /\ b_seen' = "none"

\* the id a run gives the venue of a row
VenueId(name) ==
    IF b_mode = "main" THEN generate_stable_venue_id(name)
    ELSE IndexId(Len(DictFrom(<<>>, b_existing.venues)) + Len(b_venues))

\* one iteration of the row loop (main 245-292, incremental_update 396-424):
\* the provider is called with the row's text; the venue is appended unless
\* the call or a conversion of the row raises, and then the failure is
\* printed and the loop goes on
EmbedRow(answered) ==
    /\ b_pc = "rows"
    /\ b_todo # <<>>
    /\ LET row == Head(b_todo)
           text == embedding_text(row)
           venue_data == [id |-> VenueId(row.Name), name |-> row.Name,
                          embedding |-> get_embedding(text)]
       IN  /\ answered \/ MayFail(text)
           /\ b_calls' = Append(b_calls,
                  Call(row.Name, text, answered, ~IntRaises(row.Tourist_Level)))
           /\ b_budget' = BudgetAfter(text, answered)
           /\ IF answered /\ ~IntRaises(row.Tourist_Level)
              THEN b_venues' = Append(b_venues, venue_data) /\ UNCHANGED b_log
              ELSE b_log' = Report(b_log, row.Name) /\ UNCHANGED b_venues
    /\ b_todo' = Tail(b_todo)
    /\ b_pc' = AfterRows(Tail(b_todo), b_mode)
    /\ UNCHANGED <<b_csv, b_disk, b_mode, b_tagtodo, b_existing, b_tags>>
    /\ b_seen' = "none"

\* one iteration of the tag loop of main (300-307)
EmbedTag(answered) ==
    /\ b_pc = "tags"
    /\ b_tagtodo # <<>>
    /\ LET tag == Head(b_tagtodo)
           description == TAG_DESCRIPTIONS(tag)
       IN  /\ answered \/ MayFail(description)
           /\ b_calls' = Append(b_calls,
                                 Call(<<tag>>, description, answered, TRUE))
           /\ b_budget' = BudgetAfter(description, answered)
           /\ IF answered
              THEN /\ b_tags' = Append(b_tags, [tag |-> tag,
                                      embedding |-> get_embedding(description)])
                   /\ UNCHANGED b_log
              ELSE b_log' = Report(b_log, <<tag>>) /\ UNCHANGED b_tags
    /\ b_tagtodo' = Tail(b_tagtodo)
    /\ b_pc' = AfterTags(Tail(b_tagtodo))
    /\ UNCHANGED <<b_csv, b_disk, b_mode, b_todo, b_existing, b_venues>>
    /\ b_seen' = "none"

\* the document a run writes: main 312-323, incremental_update 429-431
OutputDocument ==
    IF b_mode = "main"
    THEN [dimensions |-> EMBEDDING_DIMENSIONS,
          venues |-> b_venues,
          tag_embeddings |-> b_tags,
          total_venues |-> Len(b_venues)]
    ELSE LET all_venues == DictFrom(<<>>, b_existing.venues) \o b_venues
         IN  [b_existing EXCEPT !.venues = all_venues,
                                !.total_venues = Len(all_venues)]

\* with open(OUTPUT_JSON, 'w') ...: opening the file for writing empties it
OpenOutput ==
    /\ b_pc = "save"
    /\ b_disk' = [state |-> "truncated", doc |-> EmptyDoc]
    /\ b_pc' = "dump"
    /\ UNCHANGED <<b_csv, b_mode, b_todo, b_tagtodo, b_existing, b_venues,
                   b_tags, b_log, b_calls, b_budget>>
    /\ b_seen' = "none"

\* json.dump(output, f) has written the whole document and the file is closed
DumpOutput ==
    /\ b_pc = "dump"
    /\ b_disk' = [state |-> "complete", doc |-> OutputDocument]
    /\ b_pc' = "done"
    /\ UNCHANGED <<b_csv, b_mode, b_todo, b_tagtodo, b_existing, b_venues,
                   b_tags, b_log, b_calls, b_budget>>
    /\ b_seen' = "none"

\* the running script is killed (Ctrl-C, crash, power loss) and writes
\* nothing more; b_venues and b_tags still show what it had embedded
Interrupt ==
    /\ b_pc \in {"rows", "tags", "save", "dump"}
    /\ b_pc' = "killed"
    /\ UNCHANGED <<b_csv, b_disk, b_mode, b_todo, b_tagtodo, b_existing,
                   b_venues, b_tags, b_log, b_calls, b_budget>>
    /\ b_seen' = "none"

\* the process of a finished or killed script is gone, and its memory with it
Exit ==
    /\ b_pc \in {"done", "killed"}
    /\ b_pc' = "idle"
    /\ b_mode' = "none"
    /\ b_todo' = <<>>
    /\ b_tagtodo' = <<>>
    /\ b_existing' = EmptyDoc
    /\ b_venues' = <<>>
    /\ b_tags' = <<>>
    /\ b_log' = <<>>
    /\ b_calls' = <<>>
    /\ UNCHANGED <<b_csv, b_disk, b_budget>>
    /\ b_seen' = "none"

\* another process opens the corpus file and parses it
\* (test_embeddings.py 19-21)
ReadCorpus ==
    /\ b_seen' = IF b_disk.state = "missing" THEN "FileNotFoundError"
                 ELSE IF b_disk.state = "truncated" THEN "JSONDecodeError"
                 ELSE "corpus"
    /\ UNCHANGED <<b_csv, b_disk, b_pc, b_mode, b_todo, b_tagtodo, b_existing,
                   b_venues, b_tags, b_log, b_calls, b_budget>>

InitBuild ==
    /\ b_csv = <<>>
    /\ b_disk = NoDisk
    /\ b_pc = "idle"
    /\ b_mode = "none"
    /\ b_todo = <<>>
    /\ b_tagtodo = <<>>
    /\ b_existing = EmptyDoc
    /\ b_venues = <<>>
    /\ b_tags = <<>>
    /\ b_log = <<>>
    /\ b_calls = <<>>
    /\ b_budget = MaxFailures
    /\ b_seen = "none"

InitBuildAll ==
    InitBuild /\ PoolIdle /\ NormIdle /\ EvalIdle /\ PipeIdle /\ CosIdle /\ LoadIdle
              /\ MoreIdle

otherVars == <<poolVars, normVars, evalVars, pipeVars, cosVars, loadVars, moreVars>>

\* the steps of a script that has been started
RunStep ==
    \/ \E answered \in BOOLEAN : EmbedRow(answered) /\ UNCHANGED otherVars
    \/ \E answered \in BOOLEAN : EmbedTag(answered) /\ UNCHANGED otherVars
    \/ OpenOutput /\ UNCHANGED otherVars
    \/ DumpOutput /\ UNCHANGED otherVars

NextBuild ==
    \/ \E row \in RowPool : AddRow(row) /\ UNCHANGED otherVars
    \/ StartMain /\ UNCHANGED otherVars
    \/ StartUpdate /\ UNCHANGED otherVars
    \/ \E answered \in BOOLEAN : EmbedRow(answered) /\ UNCHANGED otherVars
    \/ \E answered \in BOOLEAN : EmbedTag(answered) /\ UNCHANGED otherVars
    \/ OpenOutput /\ UNCHANGED otherVars
    \/ DumpOutput /\ UNCHANGED otherVars
    \/ Interrupt /\ UNCHANGED otherVars
    \/ Exit /\ UNCHANGED otherVars
    \/ ReadCorpus /\ UNCHANGED otherVars

SpecBuild == InitBuildAll /\ [][NextBuild]_vars

\* A corpus file written by an earlier main() run, and the CSV as it is now.
\* The CSV main() read may have listed one venue twice.
DuplicateRow ==
    [Name |-> Pier, VibeDescription |-> "", Vibe |-> VibeText,
     Tourist_Level |-> "3"]

\* the document main() writes from these rows when the provider answers
\* every call
MainDocument(rows) ==
    LET good == SelectSeq(rows, LAMBDA row : ~IntRaises(row.Tourist_Level))
        written == [i \in 1..Len(good) |->
                      [id |-> generate_stable_venue_id(good[i].Name),
                       name |-> good[i].Name,
                       embedding |-> get_embedding(embedding_text(good[i]))]]
        tagged == [i \in 1..Len(ALL_UI_TAGS) |->
                              [tag |-> ALL_UI_TAGS[i],
                               embedding |-> get_embedding(
                                   TAG_DESCRIPTIONS(ALL_UI_TAGS[i]))]]
    IN  [dimensions |-> EMBEDDING_DIMENSIONS,
         venues |-> written,
         tag_embeddings |-> tagged,
         total_venues |-> Len(written)]

InitRoundTrip ==
    /\ b_csv \in SeqsUpTo(RowPool, MaxRows)
    /\ \E rows \in SeqsUpTo(RowPool \cup {DuplicateRow}, MaxRows) :
           b_disk = [state |-> "complete", doc |-> MainDocument(rows)]
    /\ b_pc = "idle"
    /\ b_mode = "none"
    /\ b_todo = <<>>
    /\ b_tagtodo = <<>>
    /\ b_existing = EmptyDoc
    /\ b_venues = <<>>
    /\ b_tags = <<>>
    /\ b_log = <<>>
    /\ b_calls = <<>>
    /\ b_budget = MaxFailures
    /\ b_seen = "none"

InitRoundTripAll ==
    InitRoundTrip /\ PoolIdle /\ NormIdle /\ EvalIdle /\ PipeIdle /\ CosIdle /\ LoadIdle
                  /\ MoreIdle

NextRoundTrip ==
    \/ StartUpdate /\ UNCHANGED otherVars
    \/ \E answered \in BOOLEAN : EmbedRow(answered) /\ UNCHANGED otherVars
    \/ OpenOutput /\ UNCHANGED otherVars
    \/ DumpOutput /\ UNCHANGED otherVars
    \/ Exit /\ UNCHANGED otherVars

SpecRoundTrip == InitRoundTripAll /\ [][NextRoundTrip]_vars

\* The same scripts left to run: nothing kills a started script, its next
\* step is always taken in the end, and the provider, after at most
\* MaxFailures failures, answers every call.
NextBuildFair ==
    \/ \E row \in RowPool : AddRow(row) /\ UNCHANGED otherVars
    \/ StartMain /\ UNCHANGED otherVars
    \/ StartUpdate /\ UNCHANGED otherVars
    \/ \E answered \in BOOLEAN : EmbedRow(answered) /\ UNCHANGED otherVars
    \/ \E answered \in BOOLEAN : EmbedTag(answered) /\ UNCHANGED otherVars
    \/ OpenOutput /\ UNCHANGED otherVars
    \/ DumpOutput /\ UNCHANGED otherVars
    \/ Exit /\ UNCHANGED otherVars

SpecBuildFair == InitBuildAll /\ [][NextBuildFair]_vars /\ WF_vars(RunStep)

(***************************************************************************)
(* SpecPool: mean_pool on a list of tag embeddings                         *)
(***************************************************************************)
PoolVecs ==
    { Scale(Unit, Basis(1)), Scale(Unit, Basis(2)),
      Scale(Unit, Neg(Basis(1))), Scale(Unit, Ones) }

(***************************************************************************)
(* MapsService.search_places (agency-scout/services/maps.py)               *)
(* Strings are sequences of tokens; a list of places is the sequence of    *)
(* the pages it was built from, a page being its number of places and the  *)
(* serial number of the API response that carried it.                      *)
(***************************************************************************)
MaxPages == 2         \* non-empty pages the API serves in one behaviour
MaxCalls == 2         \* calls of search_places in one behaviour
PageSize == 20        \* 'pageSize': 20

QueryPool == { <<"bars">>, <<"bars", "_", "5">> }
MaxResultsPool == {5, 7}
KnownStrategies == { <<"normal">>, <<"deep", "_", "discovery">> }
StrategyPool == KnownStrategies \cup { <<"7", "_", "normal">> }

\* str(n) for n >= 0, digit by digit
RECURSIVE DigitsOf(_)
DigitsOf(n) ==
    IF n < 10 THEN <<ToString(n)>>
    ELSE DigitsOf(n \div 10) \o <<ToString(n % 10)>>

\* a cache keyed by the query alone
cache_key_query_only(text_query, max_results, search_strategy) == text_query

\* f"{query}_{max_results}_{search_strategy}"; the md5 of _get_cache_key is
\* taken to tell any two such strings apart
cache_key_str(text_query, max_results, search_strategy) ==
    text_query \o <<"_">> \o DigitsOf(max_results) \o <<"_">> \o search_strategy

Triple(call) == <<call.query, call.max_results, call.search_strategy>>

cache_file(call) ==
    cache_key_str(call.query, call.max_results, call.search_strategy)

\* len(all_places)
RECURSIVE PlaceCount(_)
PlaceCount(pages) ==
    IF pages = <<>> THEN 0 ELSE Head(pages).n + PlaceCount(Tail(pages))

\* what the API answers to one request: an error status or an exception,
\* or a page of 0..PageSize places with or without a nextPageToken
Responses ==
    [ok : {FALSE}, n : {0}, token : {FALSE}]
    \cup [ok : {TRUE}, n : {0, 3, PageSize}, token : BOOLEAN]

Prior(call) ==
    IF Triple(call) \in DOMAIN m_hist
    THEN [seen |-> TRUE, list |-> m_hist[Triple(call)]]
    ELSE NoPrior

\* lines 39-42: not force_refresh and the cache file exists
CacheHit(text_query, max_results, search_strategy) ==
    LET call == [query |-> text_query, max_results |-> max_results,
                 search_strategy |-> search_strategy, force_refresh |-> FALSE]
        entry == m_cache[cache_file(call)]
    IN  /\ m_pc = "idle"
        /\ m_calls < MaxCalls
        /\ m_calls' = m_calls + 1
        /\ cache_file(call) \in DOMAIN m_cache
        /\ m_last' = [call |-> call, hit |-> TRUE, result |-> entry.list,
                      prior |-> Prior(call), sharer |-> entry.writer]
        /\ m_hist' = (Triple(call) :> entry.list) @@ m_hist
        /\ UNCHANGED <<m_cache, m_pc, m_call, m_places, m_stamp>>

\* lines 44-70: a cache miss or a forced refresh starts the page loop
CacheMiss(text_query, max_results, search_strategy, force_refresh) ==
    LET call == [query |-> text_query, max_results |-> max_results,
                 search_strategy |-> search_strategy,
                 force_refresh |-> force_refresh]
    IN  /\ m_pc = "idle"
        /\ m_calls < MaxCalls
        /\ m_calls' = m_calls + 1
        /\ force_refresh \/ cache_file(call) \notin DOMAIN m_cache
        /\ m_call' = call
        /\ m_places' = <<>>
        /\ m_pc' = IF 0 < max_results THEN "loop" ELSE "save"
        /\ UNCHANGED <<m_cache, m_stamp, m_hist, m_last>>

\* lines 70-98: one iteration of while len(all_places) < max_results
FetchPage(response) ==
    /\ m_pc = "loop"
    /\ response.n > 0 => m_stamp < MaxPages
    /\ IF ~response.ok \/ response.n = 0
       THEN /\ m_pc' = "save"
            /\ UNCHANGED <<m_places, m_stamp>>
       ELSE /\ m_places' = Append(m_places, [n |-> response.n, serial |-> m_stamp + 1])
            /\ m_stamp' = m_stamp + 1
            /\ m_pc' = IF response.token
                          /\ PlaceCount(m_places') < m_call.max_results
                       THEN "loop" ELSE "save"
    /\ UNCHANGED <<m_cache, m_call, m_hist, m_last, m_calls>>

\* lines 100-104: the list is written to the cache file and returned
SaveAndReturn ==
    /\ m_pc = "save"
    /\ m_cache' = (cache_file(m_call) :> [list |-> m_places, writer |-> m_call])
                  @@ m_cache
    /\ m_hist' = (Triple(m_call) :> m_places) @@ m_hist
    /\ m_last' = [call |-> m_call, hit |-> FALSE, result |-> m_places,
                  prior |-> Prior(m_call), sharer |-> m_call]
    /\ m_pc' = "idle"
    /\ m_call' = NoCall
    /\ m_places' = <<>>
    /\ UNCHANGED <<m_stamp, m_calls>>

InitMaps == MapsIdle

InitMapsAll ==
    InitMaps /\ PoolIdle /\ NormIdle /\ EvalIdle /\ PipeIdle /\ CosIdle /\ LoadIdle
             /\ BuildIdle /\ EnrichIdle /\ AdminIdle

mapsElse == <<poolVars, normVars, evalVars, pipeVars, cosVars, loadVars, buildVars,
              enrichVars, adminVars>>

NextMaps ==
    \/ \E q \in QueryPool, n \in MaxResultsPool, s \in StrategyPool :
            CacheHit(q, n, s) /\ UNCHANGED mapsElse
    \/ \E q \in QueryPool, n \in MaxResultsPool, s \in StrategyPool, f \in BOOLEAN :
            CacheMiss(q, n, s, f) /\ UNCHANGED mapsElse
    \/ \E response \in Responses : FetchPage(response) /\ UNCHANGED mapsElse
    \/ SaveAndReturn /\ UNCHANGED mapsElse

SpecMaps == InitMapsAll /\ [][NextMaps]_vars

(***************************************************************************)
(* enrich_venues.py: process_venues in its default mode                    *)
(***************************************************************************)
MaxEnrich == 5        \* rows of the CSV
SaveEvery == 5        \* if (success + failed) % 5 == 0: df.to_csv(...)

\* a missing value of the DataFrame
NaNValue == "NaN"

OldText == "Candle-lit corners and slow jazz."
NewText == "Salt air, warm light, unhurried evenings."

\* strings pandas.read_csv takes for a missing value (its default na_values)
NaStrings == {"", "N/A", "NA", "None", "null", "nan"}

\* pd.read_csv: a cell that holds one of the na strings is read as NaN
read_csv(cells) ==
    [i \in 1..Len(cells) |-> IF cells[i] \in NaStrings THEN NaNValue ELSE cells[i]]

\* df.to_csv: a missing value is written as an empty cell
to_csv(column) ==
    [i \in 1..Len(column) |-> IF column[i] = NaNValue THEN "" ELSE column[i]]

\* --all: needs_enrichment = df.copy()
needs_all(column) == 1..Len(column)

\* df[df['VibeDescription'].isna() | (df['VibeDescription'] == '')]
needs_enrichment(column) ==
    { i \in 1..Len(column) : column[i] = NaNValue \/ column[i] = "" }

\* the rows of a selection in the order of the DataFrame
RECURSIVE InOrder(_, _)
InOrder(rows, i) ==
    IF rows = {} THEN <<>>
    ELSE IF i \in rows THEN <<i>> \o InOrder(rows \ {i}, i + 1)
    ELSE InOrder(rows, i + 1)

\* what generate_vibe_description returns for one venue: None, or the
\* stripped, non-empty text the model wrote
VibeResults == {NaNValue, NewText, "N/A"}

\* lines 232-292: the CSV is read and the rows to enrich are selected; the
\* function returns when there is none
StartEnrich ==
    /\ e_pc \in {"idle", "killed"}
    /\ LET df == read_csv(e_csv)
       IN  /\ needs_enrichment(df) # {}
           /\ e_df' = df
           /\ e_todo' = InOrder(needs_enrichment(df), 1)
    /\ e_start' = e_csv
    /\ e_picked' = {}
    /\ e_count' = 0
    /\ e_pc' = "loop"
    /\ UNCHANGED e_csv

\* lines 300-338: one venue is processed; vibe_desc = NaNValue stands for a
\* place not found on Maps and for a description that was not generated.
\* Every SaveEvery processed venues the DataFrame is written to the CSV.
ProcessVenue(vibe_desc) ==
    /\ e_pc = "loop"
    /\ e_todo # <<>>
    /\ LET idx == Head(e_todo)
       IN  /\ e_df' = IF vibe_desc # NaNValue
                      THEN [e_df EXCEPT ![idx] = vibe_desc] ELSE e_df
           /\ e_picked' = e_picked \cup {idx}
    /\ e_count' = e_count + 1
    /\ e_csv' = IF e_count' % SaveEvery = 0 THEN to_csv(e_df') ELSE e_csv
    /\ e_todo' = Tail(e_todo)
    /\ e_pc' = IF Tail(e_todo) = <<>> THEN "final" ELSE "loop"
    /\ UNCHANGED e_start

\* lines 340-343: the final save; the script ends
FinalSave ==
    /\ e_pc = "final"
    /\ e_csv' = to_csv(e_df)
    /\ e_pc' = "idle"
    /\ e_df' = <<>>
    /\ e_todo' = <<>>
    /\ e_count' = 0
    /\ UNCHANGED <<e_start, e_picked>>

\* the script is killed between two venues or before the final save
KillEnrich ==
    /\ e_pc \in {"loop", "final"}
    /\ e_pc' = "killed"
    /\ e_df' = <<>>
    /\ e_todo' = <<>>
    /\ e_count' = 0
    /\ UNCHANGED <<e_start, e_picked>>
    /\ UNCHANGED e_csv

InitEnrich ==
    /\ e_csv \in [1..MaxEnrich -> {"", OldText}]
    /\ e_df = <<>>
    /\ e_pc = "idle"
    /\ e_todo = <<>>
    /\ e_count = 0
    /\ e_start = <<>>
    /\ e_picked = {}

InitEnrichAll ==
    InitEnrich /\ PoolIdle /\ NormIdle /\ EvalIdle /\ PipeIdle /\ CosIdle /\ LoadIdle
               /\ BuildIdle /\ MapsIdle /\ AdminIdle

enrichElse == <<poolVars, normVars, evalVars, pipeVars, cosVars, loadVars, buildVars,
                mapsVars, adminVars>>

NextEnrich ==
    \/ StartEnrich /\ UNCHANGED enrichElse
    \/ \E vibe_desc \in VibeResults : ProcessVenue(vibe_desc) /\ UNCHANGED enrichElse
    \/ FinalSave /\ UNCHANGED enrichElse
    \/ KillEnrich /\ UNCHANGED enrichElse

SpecEnrich == InitEnrichAll /\ [][NextEnrich]_vars

InitPool ==
    /\ embeddings \in SeqsUpTo(PoolVecs, MaxMoods)
    /\ pooled = <<>>
    /\ pool_pc = "call"

Pool ==
    /\ pool_pc = "call"
    /\ pooled' = mean_pool(embeddings)
    /\ pool_pc' = "returned"
    /\ UNCHANGED embeddings

NextPool == Pool /\ UNCHANGED <<normVars, evalVars, pipeVars, restVars>>

InitPoolAll == InitPool /\ NormIdle /\ EvalIdle /\ PipeIdle /\ RestIdle

SpecPool == InitPoolAll /\ [][NextPool]_vars

NextNorm == Normalize /\ UNCHANGED <<poolVars, evalVars, pipeVars, restVars>>

InitNormAll == InitNorm /\ PoolIdle /\ EvalIdle /\ PipeIdle /\ RestIdle

SpecNorm == InitNormAll /\ [][NextNorm]_vars

(***************************************************************************)
(* Claims about the evaluation                                             *)
(***************************************************************************)
Permuted(list, p) == [k \in 1..Len(list) |-> list[p[k]]]

\* C1: for every non-empty list of tag embeddings the pooled vector is the
\* element-wise arithmetic mean, and pooling any permutation of the list
\* gives the same vector.
C1_MeanPoolOrderIndependent ==
    (pool_pc = "returned" /\ embeddings # <<>>) =>
        /\ \A j \in 1..Dim :
              pooled[j] * Len(embeddings) =
                SumTo([k \in 1..Len(embeddings) |-> embeddings[k][j]], Len(embeddings))
        /\ \A p \in Permutations(1..Len(embeddings)) :
              mean_pool(Permuted(embeddings, p)) = pooled

C1_Witness ==
    /\ pool_pc = "returned"
    /\ Len(embeddings) = 3
    /\ Cardinality(Range(embeddings)) = 3
    /\ pooled \notin Range(embeddings)

LastDetail == results.details[Len(results.details)]
EntryOf(i) == {j \in 1..Len(scores) : scores[j].name = venues[i].name}

\* C2: after a case is scored, the score list holds exactly one entry per
\* venue of the corpus, carrying that venue's cosine similarity to the
\* query (so venues with identical embeddings carry identical scores and
\* are both present), and the list is in non-increasing score order.
C2_OneEntryPerVenueSortedDescending ==
    (outcome = "scored") =>
        /\ Len(scores) = Len(venues)
        /\ \A i \in 1..Len(venues) :
              /\ Cardinality(EntryOf(i)) = 1
              /\ \A j \in EntryOf(i) :
                    scores[j].score = cosine_similarity(query, venues[i].embedding)
        /\ \A i \in 1..Len(scores) - 1 :
              ScoreLE(scores[i + 1].score, scores[i].score)

C2_Witness ==
    /\ outcome = "scored"
    /\ Len(venues) = MaxVenues
    /\ venues[1].embedding = venues[2].embedding
    /\ \E i \in 1..Len(scores) - 1 : scores[i].name = venues[1].name
                                      /\ scores[i + 1].name = venues[2].name
    /\ ScoreLT(scores[Len(scores)].score, scores[1].score)
    /\ scores[1].name # venues[1].name

\* C3: the ranking does not depend on the order in which the corpus lists
\* the venues: scoring any reordering of the same venues against the same
\* query yields the same ranked order of names.
C3_RankingIndependentOfListingOrder ==
    (outcome = "scored") =>
        \A p \in Permutations(1..Len(venues)) :
            Names(score_all(query, Permuted(venues, p))) = Names(scores)

\* C4: the display score lies within [display_floor, display_ceiling] for
\* every raw score, also one below min_sim or above max_sim.
C4_DisplayScoreWithinRange ==
    (norm_pc = "returned") =>
        /\ DisplayFloor * scaled.den <= scaled.num
        /\ scaled.num <= (DisplayFloor + DisplaySpan) * scaled.den

\* C5: Precision@K of a scored case is the number of expected names among
\* the first K ranked venues divided by min(|expected|, K).
C5_PrecisionAtK ==
    (outcome = "scored") =>
        LET expected == Range(tc.expected)
            topK == {scores[i].name : i \in 1..Min(K, Len(scores))}
        IN  FracEQ(LastDetail.precision,
                   [num |-> Cardinality(expected \cap topK),
                    den |-> Min(Cardinality(expected), K)])

C5_Witness ==
    /\ outcome = "scored"
    /\ Len(scores) > K
    /\ scores[Len(scores)].name \in Range(tc.expected)
    /\ Ghost \in Range(tc.expected)
    /\ LastDetail.precision = Zero

\* C6: the reciprocal rank of a scored case is 1/r for the 1-based position
\* r of the first ranked venue whose name is expected, and 0 when no ranked
\* venue is expected.
C6_ReciprocalRank ==
    (outcome = "scored") =>
        LET expected == Range(tc.expected)
        IN  /\ \A r \in 1..Len(scores) :
                  ( /\ scores[r].name \in expected
                    /\ \A j \in 1..(r - 1) : scores[j].name \notin expected )
                  => LastDetail.mrr = [num |-> 1, den |-> r]
            /\ (\A r \in 1..Len(scores) : scores[r].name \notin expected)
                  => LastDetail.mrr.num = 0

C6_Witness ==
    /\ outcome = "scored"
    /\ LastDetail.mrr = [num |-> 1, den |-> Len(scores)]
    /\ Len(scores) > K

\* C7: every venue record of the persisted corpus carries the stable id of
\* its name, and none carries an index-based id "v" followed by digits.
C7_EveryIdIsStable ==
    \A i \in 1..Len(file.venues) :
        /\ file.venues[i].id = generate_stable_venue_id(file.venues[i].name)
        /\ ~IsIndexId(file.venues[i].id)

\* C8: the persisted venue list holds at most one record per id and at most
\* one record per name.
C8_OneRecordPerIdAndName ==
    \A i, j \in 1..Len(file.venues) :
        i # j => /\ file.venues[i].id # file.venues[j].id
                 /\ file.venues[i].name # file.venues[j].name

HasUnknownMood(case) == \E i \in 1..Len(case.moods) : case.moods[i] \notin DOMAIN tag_embeddings

\* C9: a case that names a tag without an entry in the vocabulary is never
\* scored: no ranking is produced from its remaining known tags.
C9_UnknownTagNeverScored ==
    ~(outcome = "scored" /\ HasUnknownMood(tc))

\* C10: a case with zero tags ends in an error: it is neither skipped nor
\* scored.
C10_EmptyQueryFails ==
    (outcome # "none" /\ tc.moods = <<>>) => outcome \notin {"skipped", "scored"}

\* every embedding of the document has the declared length
Consistent(doc) ==
    /\ \A tag \in DOMAIN doc.tag_embeddings :
           Len(doc.tag_embeddings[tag]) = doc.dimensions
    /\ \A i \in 1..Len(doc.venues) :
           Len(doc.venues[i].embedding) = doc.dimensions

\* C11: on a corpus in which some tag or venue embedding has a length other
\* than the declared dimensions, no similarity is computed and no ranking
\* is produced.
C11_MismatchFailsBeforeScoring ==
    ~Consistent(q_data) => (q_sims = <<>> /\ q_pc # "ranked")

ZeroNorm(v) == dot(v, v) = 0

\* C13: a call of cosine_similarity in which either vector is empty or has
\* zero norm ends in ZeroVectorError: it returns no number.
C13_ZeroNormFails ==
    (cos_pc # "call" /\ (ZeroNorm(cos_v1) \/ ZeroNorm(cos_v2)))
        => cos_out.kind = "ZeroVectorError"

\* C12: in every complete corpus file the pipeline has written, the
\* declared dimensions equal the length of every venue embedding and of
\* every tag embedding, and no embedding is empty.
C12_DimensionsMatchEveryEmbedding ==
    b_disk.state = "complete" =>
        LET doc == b_disk.doc
        IN  /\ doc.dimensions > 0
            /\ \A i \in 1..Len(doc.venues) :
                   doc.venues[i].embedding.dims = doc.dimensions
            /\ \A i \in 1..Len(doc.tag_embeddings) :
                   doc.tag_embeddings[i].embedding.dims = doc.dimensions

\* an incremental update has written venues of a full build and its own
C12_Witness ==
    /\ b_pc = "done"
    /\ b_mode = "update"
    /\ b_venues # <<>>
    /\ Len(b_disk.doc.venues) > Len(b_venues)
    /\ b_disk.doc.tag_embeddings # <<>>

\* C14: a venue whose selected text is empty is refused before the
\* provider is reached: the provider is never called with an empty text and
\* no venue embedded from an empty text enters the corpus the run builds.
C14_EmptyTextNeverSent ==
    /\ \A i \in 1..Len(b_calls) : b_calls[i].text # ""
    /\ \A i \in 1..Len(b_venues) : b_venues[i].embedding.text # ""

\* the text field a stored venue embedding was computed from
FieldOf(venue) ==
    IF venue.embedding.text = DescriptionText THEN "VibeDescription" ELSE "Vibe"

\* C15: in every complete corpus file all venue embeddings were computed
\* from the same text field: no file holds one venue embedded from its
\* VibeDescription next to one embedded from its Vibe string.
C15_OneTextFieldPerCorpus ==
    b_disk.state = "complete" =>
        \A i, j \in 1..Len(b_disk.doc.venues) :
            FieldOf(b_disk.doc.venues[i]) = FieldOf(b_disk.doc.venues[j])

\* the items a run has to embed, in the order of its loops
BatchItems ==
    IF b_mode = "main"
    THEN [i \in 1..Len(b_csv) |-> b_csv[i].Name]
         \o [i \in 1..Len(ALL_UI_TAGS) |-> <<ALL_UI_TAGS[i]>>]
    ELSE LET new_df == SelectSeq(b_csv, LAMBDA row :
                           row.Name \notin VenueNames(b_existing.venues))
         IN  [i \in 1..Len(new_df) |-> new_df[i].Name]

Attempted == [i \in 1..Len(b_calls) |-> b_calls[i].item]

Reported(call) == \E i \in 1..Len(b_log) : b_log[i] = call.item

\* the file holds the embedding the provider returned for this call
InOutput(call) ==
    LET doc == b_disk.doc
    IN  \/ \E i \in 1..Len(doc.venues) :
               /\ doc.venues[i].name = call.item
               /\ doc.venues[i].embedding = get_embedding(call.text)
        \/ \E i \in 1..Len(doc.tag_embeddings) :
               /\ <<doc.tag_embeddings[i].tag>> = call.item
               /\ doc.tag_embeddings[i].embedding = get_embedding(call.text)

\* C16: when a run has written its file, every item of the batch was
\* attempted whatever happened to the others, every item whose provider
\* call succeeded and whose row converts is in the written file, and every
\* other item was reported by name.
C16_FailuresArePerItem ==
    b_pc = "done" =>
        /\ Attempted = BatchItems
        /\ \A i \in 1..Len(b_calls) :
               IF b_calls[i].answered /\ b_calls[i].converts
               THEN InOutput(b_calls[i])
               ELSE Reported(b_calls[i])

\* C16 as stated: every item whose provider call succeeded is in the
\* written file, and every item whose call failed was reported.
C16_EverySuccessfulCallIsWritten ==
    b_pc = "done" =>
        /\ Attempted = BatchItems
        /\ \A i \in 1..Len(b_calls) :
               IF b_calls[i].answered
               THEN InOutput(b_calls[i])
               ELSE Reported(b_calls[i])

\* a run has written its file after the provider failed on one item, a row
\* did not convert after its call succeeded, and another row went through
C16_Witness ==
    /\ b_pc = "done"
    /\ \E i, j, k \in 1..Len(b_calls) :
           /\ ~b_calls[i].answered
           /\ Reported(b_calls[i])
           /\ b_calls[j].answered
           /\ b_calls[j].item \in RowNames(b_csv)
           /\ InOutput(b_calls[j])
           /\ b_calls[k].answered
           /\ ~b_calls[k].converts
           /\ ~InOutput(b_calls[k])

\* the file holds exactly one venue of this name
PersistedOnce(name) ==
    b_disk.state = "complete" /\
    Cardinality({ i \in 1..Len(b_disk.doc.venues) :
                      b_disk.doc.venues[i].name = name }) = 1

\* C17: once a build has started on the CSV, a state follows in which a
\* build has finished and every venue listed in the CSV has exactly one
\* embedding in the persisted corpus.
C17_EveryVenueEventuallyEmbeddedOnce ==
    (b_pc = "rows") ~>
        (b_pc = "done" /\ \A name \in RowNames(b_csv) : PersistedOnce(name))

\* C18: when a run is killed, every venue it had embedded by then is in
\* the corpus file, so that a later run can start from there.
C18_InterruptedWorkIsOnDisk ==
    b_pc = "killed" =>
        \A i \in 1..Len(b_venues) :
            /\ b_disk.state = "complete"
            /\ \E j \in 1..Len(b_disk.doc.venues) :
                   b_disk.doc.venues[j] = b_venues[i]

\* C19: a process that reads the corpus file at any moment gets a complete
\* corpus (or finds no file before the first build), never the remains of
\* a write in progress.
C19_ReaderNeverSeesPartialFile ==
    b_seen \in {"none", "FileNotFoundError", "corpus"}

\* C20: when incremental_update has written the file, every venue that was
\* in the file it loaded is in the file it wrote, with the same id and the
\* same embedding.
C20_UpdateKeepsEveryPriorVenue ==
    (b_pc = "done" /\ b_mode = "update") =>
        \A i \in 1..Len(b_existing.venues) :
            \E j \in 1..Len(b_disk.doc.venues) :
                /\ b_disk.doc.venues[j].id = b_existing.venues[i].id
                /\ b_disk.doc.venues[j].name = b_existing.venues[i].name
                /\ b_disk.doc.venues[j].embedding = b_existing.venues[i].embedding

\* C21: a full rebuild keeps the image data: a venue that had an image_url
\* in the file before main() and whose name is still in the CSV is in the
\* file after main() with the same image_url.
C21_RebuildKeepsImageData ==
    [][ (last'.op = "main" /\ csv' = csv /\ file.exists) =>
            \A i \in 1..Len(file.venues) :
                (file.venues[i].image_url.kind # "none"
                 /\ file.venues[i].name \in Range(csv)) =>
                    \E j \in 1..Len(file'.venues) :
                        /\ file'.venues[j].name = file.venues[i].name
                        /\ file'.venues[j].image_url = file.venues[i].image_url
      ]_vars

\* C22: when evaluate_strategy has returned after scoring at least one
\* case, min_score is the smallest and max_score the largest similarity
\* computed in any case, each equal to a score some venue got, and every
\* case's spread (top minus bottom) is non-negative.
C22_MinMaxAreObservedScores ==
    (pc = "done" /\ all_spreads # <<>>) =>
        LET cases == 1..Len(all_spreads)
        IN  /\ \E i \in cases : ScoreEQ(results.min_score, all_spreads[i].bottom)
            /\ \A i \in cases : ScoreLE(results.min_score, all_spreads[i].bottom)
            /\ \E i \in cases : ScoreEQ(results.max_score, all_spreads[i].top)
            /\ \A i \in cases : ScoreLE(all_spreads[i].top, results.max_score)
            /\ \A i \in cases : ScoreLE(all_spreads[i].bottom, all_spreads[i].top)

\* the sum of one field of the entries of details
RECURSIVE DetailSum(_, _)
DetailSum(details, field) ==
    IF details = <<>> THEN Zero
    ELSE FracAdd(Head(details)[field], DetailSum(Tail(details), field))

\* C25: the precision_at_5 and mrr that evaluate_strategy returns are the
\* arithmetic means of the precision and mrr values recorded in details, so
\* a skipped test case, which records nothing, does not change them.
C25_AggregatesAreMeansOfDetails ==
    (pc = "done" /\ results.details # <<>>) =>
        LET n == Len(results.details)
        IN  /\ FracEQ(results.precision_at_5,
                      FracDiv(DetailSum(results.details, "precision"), n))
            /\ FracEQ(results.mrr,
                      FracDiv(DetailSum(results.details, "mrr"), n))

\* what C23 says of the last call that returned
CachedByTriple ==
    LET call == m_last.call
    IN  /\ (~call.force_refresh /\ m_last.prior.seen) =>
               (m_last.hit /\ m_last.result = m_last.prior.list)
        /\ m_last.hit => Triple(m_last.sharer) = Triple(call)
        /\ call.force_refresh =>
               /\ ~m_last.hit
               /\ m_cache[cache_file(call)].list = m_last.result

\* C23: as long as every call names one of the strategies the code knows
\* ("normal", "deep_discovery"): a call without force_refresh after a call
\* with the same (query, max_results, search_strategy) makes no request and
\* returns what that call returned, a cache hit is always on an entry
\* written for the same triple, and a call with force_refresh goes to the
\* API and overwrites the entry.
C23_CacheKeyedByTripleForKnownStrategies ==
    (\A t \in DOMAIN m_hist : t[3] \in KnownStrategies) => CachedByTriple

\* C23 as stated, for every search_strategy string
C23_CacheKeyedByTriple == CachedByTriple

\* a forced refresh has replaced an entry, and the same triple is then
\* served from the cache with the refreshed list
C23_Witness ==
    /\ m_last.hit
    /\ m_last.prior.seen
    /\ m_last.result # <<>>
    /\ m_last.sharer.force_refresh
    /\ m_last.call.search_strategy \in KnownStrategies
    /\ \A t \in DOMAIN m_hist : t[3] \in KnownStrategies

\* C28: a call that went to the API returns at most max_results places.
C28_AtMostMaxResults ==
    PlaceCount(m_last.result) <= m_last.call.max_results
    \/ m_last.call = NoCall

\* what C24 says of the last run, the strings in missing being those a run
\* takes for "no description"
Resumable(missing) ==
    /\ (e_pc \in {"loop", "final"} /\ e_count > 0 /\ e_count % SaveEvery = 0) =>
           e_csv = to_csv(e_df)
    /\ e_pc = "idle" => \A i \in e_picked : e_csv[i] \in {"", NewText, "N/A"}
    /\ \A i \in e_picked : e_start[i] \in missing
    /\ \A i \in 1..Len(e_start) :
           e_start[i] \notin missing => e_csv[i] = e_start[i]

C29_MigrationAllOrNothing ==
    [][ last'.op = "migrate_images" =>
           IF ~last'.ok
           THEN images' = images /\ file' = file
           ELSE \/ images' = images /\ file' = file
                \/ /\ \A i \in 1..Len(file'.venues) :
                          file'.venues[i].id =
                              generate_stable_venue_id(file'.venues[i].name)
                   /\ \A i \in 1..Len(file.venues) :
                          file.venues[i].id \in images =>
                              generate_stable_venue_id(file.venues[i].name) \in images'
       ]_vars


DistinctIds(f) ==
    \A i, j \in 1..Len(f.venues) : i # j => f.venues[i].id # f.venues[j].id

\* C26: an id handed out by incremental_update never equals the id of a
\* venue already in the file or of another venue added in the same run: a
\* file whose ids are pairwise distinct still has pairwise distinct ids
\* after the update, whatever was appended or removed before.
C26_UpdateKeepsIdsDistinct ==
    [][ (last'.op = "incremental_update" /\ DistinctIds(file)) =>
            DistinctIds(file') ]_vars

\* C27: metadata.total_venues is the number of records in the venues list
\* of the corpus file, after any sequence of full builds, incremental
\* updates, remove_duplicates and resolve_duplicates.
C27_TotalVenuesIsTheCount == file.total_venues = Len(file.venues)

\* A clean-up script has just removed a venue and left at least one.
C27_Witness ==
    /\ last.op \in {"remove_duplicates", "resolve_duplicates"}
    /\ last.removed > 0
    /\ Len(file.venues) > 0


\* C30: a POST /api/add-venue answered with status 500 leaves the venue CSV
\* as it was when the request arrived.
C30_ErrorLeavesCsvUnchanged ==
    (a_pc = "idle" /\ a_status = 500) => a_csv = a_before

\* The other half of C30: status 200 is sent only after steps A, B, C, D
\* ran in that order and step D exited with 0.
SuccessAfterAllSteps ==
    (a_pc = "idle" /\ a_status = 200) =>
        /\ [i \in 1..Len(a_log) |-> a_log[i].step] = StepOrder
        /\ a_log[4].exit_code = 0

====
